---- MODULE Spec2Model ----
(***************************************************************************)
(* Model of the rust-trail simulation core:                                *)
(*   game_logic/inventory.rs  (Item, Inventory)                            *)
(*   game_logic/player.rs     (PartyMember, PlayerState)                   *)
(*                                                                         *)
(* Weights are f32 pounds in the source.  The model keeps them as integer  *)
(* tenths of a pound (1.0 -> 10, 0.1 -> 1, 500.0 -> 5000).  Every product   *)
(* and sum the model forms is below 2^24, where f32 arithmetic on the      *)
(* dyadic unit weights (1, 2, 500, 15, 10, 8, 0.5) is exact; only the      *)
(* Ammunition weight 0.1 carries an f32 representation error, which the    *)
(* model does not track.                                                   *)
(***************************************************************************)
EXTENDS Integers, Sequences, FiniteSets, TLC

VARIABLES
    stockable,      \* the kinds the caller of this run ever adds
    items,          \* Inventory.items : HashMap<ItemType, Item>
    max_capacity,   \* Inventory.max_capacity (tenths of a pound)
    pre,            \* the Inventory as it was before the last call
    last,           \* the last Inventory call: method, arguments, result
    member,         \* one PartyMember
    mpre,           \* the PartyMember as it was before the last call
    mlast,          \* the last PartyMember call
    degradeRun,     \* number of degrade_health calls while they are the only
                    \* mutating calls made on the member so far, else -1
    ps,             \* one PlayerState
    pspre,          \* the PlayerState as it was before the last call
    pslast,         \* the last PlayerState call
    overflow_checks,\* whether the build panics on integer overflow (debug
                    \* profile) or wraps (release profile)
    fault,          \* "panic" or "wrap" when the last call overflowed an
                    \* integer, else "none"
    ncalls,         \* number of calls made, in the runs that bound it
    trace,          \* the calls made on a journey and its wagon, in order
    remaining_days, \* the days advance_date has still to consume while its
                    \* loop runs, else 0
    effective,      \* number of contract_disease calls that found their
                    \* disease inactive, in the runs that count them
    game,           \* one Game
    gpre,           \* the Game as it was before the last call
    glast,          \* the last Game call
    button,         \* one Button
    bpre,           \* the Button as it was before the last call
    blast,          \* the last Button call, and the presses accepted and
                    \* actions returned so far
    textures,       \* AssetManager.textures : HashMap<String, Texture2D>
    loads,          \* number of texture files the AssetManager has asked
                    \* macroquad to load
    apre,           \* the cache and the number of loads before the last call
    alast           \* the last AssetManager call

invVars == <<stockable, items, max_capacity, pre, last>>
memVars == <<member, mpre, mlast, degradeRun>>
psVars == <<ps, pspre, pslast, overflow_checks, fault, ncalls, trace,
            remaining_days, effective>>
gameVars == <<game, gpre, glast>>
buttonVars == <<button, bpre, blast>>
assetVars == <<textures, loads, apre, alast>>
vars == <<stockable, items, max_capacity, pre, last, member, mpre, mlast, degradeRun,
          ps, pspre, pslast, overflow_checks, fault, ncalls, trace,
          remaining_days, effective, game, gpre, glast, button, bpre, blast,
          textures, loads, apre, alast>>

----------------------------------------------------------------------------
(* Bounds of the model *)

\* largest quantity a stocked record reaches, and largest quantity argument
MaxQty == 2
\* number of Disease variants the calls draw from
MaxDisease == 3
\* longest run of degrade_health calls that is counted
MaxRun == 6

\* the largest roster a party is set up to
MaxParty == 3

\* the number of advance_date calls a run makes
MaxCalls == 1

\* the number of calls a journey makes
MaxSteps == 4

\* the largest quantity of Ammunition held where weights are computed in f32
MaxAmmunition == 79
\* number of frames a button is updated for
MaxFrames == 5
\* number of texture files the asset manager may ask for
MaxLoads == 4

----------------------------------------------------------------------------
(* inventory.rs *)

ItemType ==
    {"Food", "Clothing", "Ammunition", "OxenPair",
     "SpareWheel", "SpareAxle", "SpareTongue", "MedicalSupply"}

Item_new(item_type, quantity, weight_per_unit, cost_per_unit) ==
    [item_type |-> item_type, quantity |-> quantity,
     weight_per_unit |-> weight_per_unit, cost_per_unit |-> cost_per_unit]

Item_total_weight(item) == item.quantity * item.weight_per_unit

\* Inventory::new(max_capacity): the capacities the model constructs
\* (0.0 lb and 3.0 lb)
Capacities == {0, 30}

\* struct Inventory
Inventory(its, cap) == [items |-> its, max_capacity |-> cap]

\* the item map of Inventory::new
Inventory_new == << >>

RECURSIVE SumWeights(_, _)
SumWeights(its, keys) ==
    IF keys = {} THEN 0
    ELSE LET k == CHOOSE x \in keys : TRUE
         IN  Item_total_weight(its[k]) + SumWeights(its, keys \ {k})

total_weight(its) == SumWeights(its, DOMAIN its)

\* a variant of can_add's table that gives every kind the weight of Food
default_weight_of_food(item_type) == 10

\* the inner match of can_add
default_weight(item_type) ==
    CASE item_type = "Food"          -> 10
      [] item_type = "Clothing"      -> 20
      [] item_type = "Ammunition"    -> 1
      [] item_type = "OxenPair"      -> 5000
      [] item_type = "SpareWheel"    -> 150
      [] item_type = "SpareAxle"     -> 100
      [] item_type = "SpareTongue"   -> 80
      [] item_type = "MedicalSupply" -> 5

\* mutant: can_add comparing with < instead of <=
can_add_strict(its, cap, item_type, quantity) ==
    LET weight_per_unit ==
            IF item_type \in DOMAIN its
            THEN its[item_type].weight_per_unit
            ELSE default_weight(item_type)
        additional_weight == weight_per_unit * quantity
    IN  total_weight(its) + additional_weight < cap

can_add(its, cap, item_type, quantity) ==
    LET weight_per_unit ==
            IF item_type \in DOMAIN its
            THEN its[item_type].weight_per_unit
            ELSE default_weight(item_type)
        additional_weight == weight_per_unit * quantity
    IN  total_weight(its) + additional_weight <= cap

\* the match of add_item's else branch
default_item(item_type, quantity) ==
    CASE item_type = "Food"          -> Item_new(item_type, quantity, 10, 2)
      [] item_type = "Clothing"      -> Item_new(item_type, quantity, 20, 10)
      [] item_type = "Ammunition"    -> Item_new(item_type, quantity, 1, 2)
      [] item_type = "OxenPair"      -> Item_new(item_type, quantity, 5000, 40)
      [] item_type = "SpareWheel"    -> Item_new(item_type, quantity, 150, 10)
      [] item_type = "SpareAxle"     -> Item_new(item_type, quantity, 100, 8)
      [] item_type = "SpareTongue"   -> Item_new(item_type, quantity, 80, 6)
      [] item_type = "MedicalSupply" -> Item_new(item_type, quantity, 5, 15)

\* mutant: add_item refusing what can_add refuses
add_item_checks_capacity(its, item_type, quantity) ==
    IF ~can_add(its, max_capacity, item_type, quantity)
    THEN its
    ELSE IF item_type \in DOMAIN its
         THEN [its EXCEPT ![item_type].quantity = @ + quantity]
         ELSE (item_type :> default_item(item_type, quantity)) @@ its

add_item(its, item_type, quantity) ==
    IF item_type \in DOMAIN its
    THEN [its EXCEPT ![item_type].quantity = @ + quantity]
    ELSE (item_type :> default_item(item_type, quantity)) @@ its

\* mutant: remove_item adding the quantity instead of subtracting it
remove_item_adds(its, item_type, quantity) ==
    IF item_type \in DOMAIN its /\ its[item_type].quantity >= quantity
    THEN [items |-> [its EXCEPT ![item_type].quantity = @ + quantity],
          ret |-> TRUE]
    ELSE [items |-> its, ret |-> FALSE]

\* mutant: remove_item leaving the record in place at quantity zero
remove_item_keeps_zero_record(its, item_type, quantity) ==
    IF item_type \in DOMAIN its /\ its[item_type].quantity >= quantity
    THEN [items |-> [its EXCEPT ![item_type].quantity = @ - quantity],
          ret |-> TRUE]
    ELSE [items |-> its, ret |-> FALSE]

\* returns the new map and the boolean result
remove_item(its, item_type, quantity) ==
    IF item_type \in DOMAIN its /\ its[item_type].quantity >= quantity
    THEN LET left == its[item_type].quantity - quantity
         IN  IF left = 0
             THEN [items |-> [k \in DOMAIN its \ {item_type} |-> its[k]],
                   ret |-> TRUE]
             ELSE [items |-> [its EXCEPT ![item_type].quantity = left],
                   ret |-> TRUE]
    ELSE [items |-> its, ret |-> FALSE]

get_quantity(its, item_type) ==
    IF item_type \in DOMAIN its THEN its[item_type].quantity ELSE 0

\* Vec<&Item> in the map's unspecified order: the collection of records
get_all_items(its) == {its[k] : k \in DOMAIN its}

\* f32::ceil of a value given in tenths
f32_ceil(tenths) == -((-tenths) \div 10)

\* `as u32` of a non-NaN f32 below 2^32: negative values saturate to 0
f32_as_u32(x) == IF x < 0 THEN 0 ELSE x

\* mutant: use_food truncating the pounds instead of rounding them up
use_food_truncates(its, pounds) ==
    LET pounds_int == f32_as_u32(pounds \div 10)
    IN  remove_item(its, "Food", pounds_int)

use_food(its, pounds) ==
    LET pounds_int == f32_as_u32(f32_ceil(pounds))
    IN  remove_item(its, "Food", pounds_int)

use_ammunition(its, quantity) == remove_item(its, "Ammunition", quantity)

use_medical_supply(its) == remove_item(its, "MedicalSupply", 1)

\* f32 division then multiplication by 100.0.  A finite quotient is kept as
\* the exact fraction num/den; x / 0.0 is NaN for x = 0 and +inf for x > 0
F32(class, num, den) == [class |-> class, num |-> num, den |-> den]

f32_div(a, b) ==
    IF b = 0
    THEN (IF a = 0 THEN F32("NaN", 0, 0) ELSE F32("Inf", 0, 0))
    ELSE F32("finite", a, b)

f32_mul(x, n) ==
    IF x.class = "finite" THEN F32("finite", x.num * n, x.den) ELSE x

\* mutant: capacity_info returning the fraction, not the percentage
capacity_info_fraction(its, cap) ==
    LET current_weight == total_weight(its)
        percent_full == f32_div(current_weight, cap)
    IN  <<current_weight, cap, percent_full>>

capacity_info(its, cap) ==
    LET current_weight == total_weight(its)
        percent_full == f32_mul(f32_div(current_weight, cap), 100)
    IN  <<current_weight, cap, percent_full>>

----------------------------------------------------------------------------
(* Inventory calls *)

Quantities == 0 .. MaxQty

\* a run adds kinds of one of these groups only; every kind is in a group
KindGroups ==
    {{"Food", "Clothing"}, {"Ammunition", "OxenPair"},
     {"SpareWheel", "SpareAxle"}, {"SpareTongue", "MedicalSupply"},
     {"Food", "Ammunition", "MedicalSupply"}}

\* pounds arguments of use_food, in tenths: -0.5, 0, 0.5, 1.0, 1.5, ...
Pounds == {-5} \cup {5 * n : n \in 0 .. 2 * MaxQty}

\* the result of a call, one field per result type; a call leaves the fields
\* of the other types at their defaults
RetUnit == [ok |-> FALSE, num |-> 0, list |-> {}, info |-> <<0, 0, F32("NaN", 0, 0)>>]
RetBool(b) == [RetUnit EXCEPT !.ok = b]
RetNum(n) == [RetUnit EXCEPT !.num = n]
RetList(l) == [RetUnit EXCEPT !.list = l]
RetInfo(t) == [RetUnit EXCEPT !.info = t]

Call(op, kind, qty, ret) == [op |-> op, kind |-> kind, qty |-> qty, ret |-> ret]

AddItem(k, q) ==
    /\ get_quantity(items, k) + q <= MaxQty
    /\ k \in stockable
    /\ items' = add_item(items, k, q)
    /\ pre' = Inventory(items, max_capacity)
    /\ last' = Call("add_item", k, q, RetUnit)
    /\ UNCHANGED <<stockable, max_capacity, memVars, psVars, gameVars,
                   buttonVars, assetVars>>

RemoveItem(k, q) ==
    LET r == remove_item(items, k, q)
    IN  /\ items' = r.items
        /\ pre' = Inventory(items, max_capacity)
        /\ last' = Call("remove_item", k, q, RetBool(r.ret))
        /\ UNCHANGED <<stockable, max_capacity, memVars, psVars, gameVars,
                       buttonVars, assetVars>>

\* mutant: get_quantity written with entry(..).or_insert(..), which stocks
\* an empty record for a kind that has none
GetQuantity_inserts(k) ==
    /\ last' = Call("get_quantity", k, 0, RetNum(get_quantity(items, k)))
    /\ pre' = Inventory(items, max_capacity)
    /\ items' = IF k \in DOMAIN items THEN items
                ELSE (k :> default_item(k, 0)) @@ items
    /\ UNCHANGED <<stockable, max_capacity, memVars, psVars, gameVars,
                   buttonVars, assetVars>>

GetQuantity(k) ==
    /\ last' = Call("get_quantity", k, 0, RetNum(get_quantity(items, k)))
    /\ pre' = Inventory(items, max_capacity)
    /\ UNCHANGED <<stockable, items, max_capacity, memVars, psVars, gameVars,
                   buttonVars, assetVars>>

TotalWeight ==
    /\ last' = Call("total_weight", "none", 0, RetNum(total_weight(items)))
    /\ pre' = Inventory(items, max_capacity)
    /\ UNCHANGED <<stockable, items, max_capacity, memVars, psVars, gameVars,
                   buttonVars, assetVars>>

CanAdd(k, q) ==
    /\ last' = Call("can_add", k, q, RetBool(can_add(items, max_capacity, k, q)))
    /\ pre' = Inventory(items, max_capacity)
    /\ UNCHANGED <<stockable, items, max_capacity, memVars, psVars, gameVars,
                   buttonVars, assetVars>>

GetAllItems ==
    /\ last' = Call("get_all_items", "none", 0, RetList(get_all_items(items)))
    /\ pre' = Inventory(items, max_capacity)
    /\ UNCHANGED <<stockable, items, max_capacity, memVars, psVars, gameVars,
                   buttonVars, assetVars>>

CapacityInfo ==
    /\ last' = Call("capacity_info", "none", 0,
                  RetInfo(capacity_info(items, max_capacity)))
    /\ pre' = Inventory(items, max_capacity)
    /\ UNCHANGED <<stockable, items, max_capacity, memVars, psVars, gameVars,
                   buttonVars, assetVars>>

UseFood(p) ==
    LET r == use_food(items, p)
    IN  /\ items' = r.items
        /\ pre' = Inventory(items, max_capacity)
        /\ last' = Call("use_food", "Food", p, RetBool(r.ret))
        /\ UNCHANGED <<stockable, max_capacity, memVars, psVars, gameVars,
                       buttonVars, assetVars>>

UseAmmunition(q) ==
    LET r == use_ammunition(items, q)
    IN  /\ items' = r.items
        /\ pre' = Inventory(items, max_capacity)
        /\ last' = Call("use_ammunition", "Ammunition", q, RetBool(r.ret))
        /\ UNCHANGED <<stockable, max_capacity, memVars, psVars, gameVars,
                       buttonVars, assetVars>>

UseMedicalSupply ==
    LET r == use_medical_supply(items)
    IN  /\ items' = r.items
        /\ pre' = Inventory(items, max_capacity)
        /\ last' = Call("use_medical_supply", "MedicalSupply", 1, RetBool(r.ret))
        /\ UNCHANGED <<stockable, max_capacity, memVars, psVars, gameVars,
                       buttonVars, assetVars>>

----------------------------------------------------------------------------
(* player.rs : PartyMember *)

HealthStatus == {"Good", "Fair", "Poor", "VeryPoor", "Deceased"}

DiseaseList ==
    <<"Cholera", "Dysentery", "Measles", "Typhoid", "Fever",
      "BrokenLeg", "BrokenArm", "Exhaustion", "SnakeBite">>

\* the variants the calls draw from
Disease == {DiseaseList[i] : i \in 1 .. MaxDisease}

PartyMember_new(name, age, is_leader) ==
    [name |-> name, health |-> "Good", diseases |-> << >>,
     is_leader |-> is_leader, age |-> age]

is_alive(m) == m.health # "Deceased"

degrade_health_stops_at_very_poor(m) ==
    [m EXCEPT !.health =
        CASE m.health = "Good"     -> "Fair"
          [] m.health = "Fair"     -> "Poor"
          [] m.health = "Poor"     -> "VeryPoor"
          [] m.health = "VeryPoor" -> "VeryPoor"
          [] m.health = "Deceased" -> "Deceased"]

degrade_health(m) ==
    [m EXCEPT !.health =
        CASE m.health = "Good"     -> "Fair"
          [] m.health = "Fair"     -> "Poor"
          [] m.health = "Poor"     -> "VeryPoor"
          [] m.health = "VeryPoor" -> "Deceased"
          [] m.health = "Deceased" -> "Deceased"]

improve_health_revives(m) ==
    [m EXCEPT !.health =
        CASE m.health = "Good"     -> "Good"
          [] m.health = "Fair"     -> "Good"
          [] m.health = "Poor"     -> "Fair"
          [] m.health = "VeryPoor" -> "Poor"
          [] m.health = "Deceased" -> "VeryPoor"]

improve_health(m) ==
    [m EXCEPT !.health =
        CASE m.health = "Good"     -> "Good"
          [] m.health = "Fair"     -> "Good"
          [] m.health = "Poor"     -> "Fair"
          [] m.health = "VeryPoor" -> "Poor"
          [] m.health = "Deceased" -> "Deceased"]

Contains(s, x) == \E i \in 1 .. Len(s) : s[i] = x

\* mutant: contract_disease without the contains test
contract_disease_unguarded(m, disease) ==
    degrade_health([m EXCEPT !.diseases = Append(@, disease)])

contract_disease(m, disease) ==
    IF ~Contains(m.diseases, disease)
    THEN degrade_health([m EXCEPT !.diseases = Append(@, disease)])
    ELSE m

\* mutant: recover_from_disease also improving the health
recover_from_disease_improves(m, disease) ==
    improve_health([m EXCEPT !.diseases = SelectSeq(@, LAMBDA d : d # disease)])

recover_from_disease(m, disease) ==
    [m EXCEPT !.diseases = SelectSeq(@, LAMBDA d : d # disease)]

----------------------------------------------------------------------------
(* PartyMember calls *)

MCall(op, arg, ret) == [op |-> op, arg |-> arg, ret |-> ret]

\* the constructor calls of PlayerState::setup_party
NewMembers ==
    {PartyMember_new("Amanda", 30, TRUE), PartyMember_new("Bob", 25, FALSE)}

ContractDisease(d) ==
    /\ member' = contract_disease(member, d)
    /\ mpre' = member
    /\ mlast' = MCall("contract_disease", d, RetUnit)
    /\ degradeRun' = -1
    /\ UNCHANGED <<invVars, psVars, gameVars, buttonVars, assetVars>>

RecoverFromDisease(d) ==
    /\ member' = recover_from_disease(member, d)
    /\ mpre' = member
    /\ mlast' = MCall("recover_from_disease", d, RetUnit)
    /\ degradeRun' = -1
    /\ UNCHANGED <<invVars, psVars, gameVars, buttonVars, assetVars>>

DegradeHealth ==
    /\ member' = degrade_health(member)
    /\ mpre' = member
    /\ mlast' = MCall("degrade_health", "none", RetUnit)
    /\ degradeRun' = IF degradeRun >= 0 /\ degradeRun < MaxRun
                     THEN degradeRun + 1 ELSE -1
    /\ UNCHANGED <<invVars, psVars, gameVars, buttonVars, assetVars>>

ImproveHealth ==
    /\ member' = improve_health(member)
    /\ mpre' = member
    /\ mlast' = MCall("improve_health", "none", RetUnit)
    /\ degradeRun' = -1
    /\ UNCHANGED <<invVars, psVars, gameVars, buttonVars, assetVars>>

IsAlive ==
    /\ mlast' = MCall("is_alive", "none", RetBool(is_alive(member)))
    /\ mpre' = member
    /\ UNCHANGED <<member, degradeRun, invVars, psVars, gameVars, buttonVars,
                   assetVars>>

----------------------------------------------------------------------------
(* player.rs : PlayerState *)

Pace == {"Steady", "Strenuous", "Grueling", "Resting"}

Rations == {"Filling", "Meager", "BareBones"}

\* PlayerState::new
PlayerState_new ==
    [party          |-> << >>,
     money          |-> 1600,
     pace           |-> "Steady",
     rations        |-> "Filling",
     miles_traveled |-> 0,
     location       |-> "Independence, Missouri",
     day            |-> 1,
     month          |-> 3,
     year           |-> 1848]

\* a variant that pushes the leader after the companions
setup_party_leader_last(state, leader_name, party_names) ==
    [state EXCEPT !.party =
        @ \o [i \in 1..Len(party_names) |->
                 PartyMember_new(party_names[i], 25, FALSE)]
          \o <<PartyMember_new(leader_name, 30, TRUE)>>]

\* a variant that starts from an empty roster
setup_party_replaces(state, leader_name, party_names) ==
    [state EXCEPT !.party =
        <<PartyMember_new(leader_name, 30, TRUE)>>
          \o [i \in 1..Len(party_names) |->
                 PartyMember_new(party_names[i], 25, FALSE)]]

\* PlayerState::setup_party : pushes the leader, then each companion in order
setup_party(state, leader_name, party_names) ==
    [state EXCEPT !.party =
        @ \o <<PartyMember_new(leader_name, 30, TRUE)>>
          \o [i \in 1..Len(party_names) |->
                 PartyMember_new(party_names[i], 25, FALSE)]]

\* a variant that counts every record of the roster
living_party_members_counts_all(state) == Len(state.party)

\* PlayerState::living_party_members
living_party_members(state) ==
    Cardinality({i \in 1..Len(state.party) : is_alive(state.party[i])})

----------------------------------------------------------------------------
(* player.rs : PlayerState::advance_date *)

(* day and the days parameter are u32, month is u8, year is u16.  A u32     *)
(* value v above 2^31 - 1 is kept as v - 2^32 (its two's complement), so    *)
(* that sums and differences of two u32 values are already reduced modulo   *)
(* 2^32; u8 and u16 values are kept as they are and reduced with %.         *)
U32Max == -1

U8 == 256

U16 == 65536

\* a < b on u32
u32_lt(a, b) == IF (a < 0) = (b < 0) THEN a < b ELSE b < 0

u32_min(a, b) == IF u32_lt(b, a) THEN b ELSE a

\* whether a + b leaves the range of u32
u32_add_overflows(a, b) ==
    \/ a < 0 /\ b < 0
    \/ (a < 0) # (b < 0) /\ a + b >= 0

\* whether a - b leaves the range of u32
u32_sub_overflows(a, b) == u32_lt(a, b)

\* the outcome of an overflowing operation: a panic where the build checks
\* for overflow, a wrapped value where it does not
Overflow(checks) == IF checks THEN "panic" ELSE "wrap"

\* a month table with the Gregorian exception for century years
days_in_month_gregorian(month, year) ==
    CASE month \in {1, 3, 5, 7, 8, 10, 12} -> 31
      [] month = 2 ->
            IF year % 4 = 0 /\ (year % 100 # 0 \/ year % 400 = 0) THEN 29 ELSE 28
      [] OTHER -> 30

\* the match on self.month
days_in_month(month, year) ==
    CASE month = 1 -> 31
      [] month = 2 -> IF year % 4 = 0 THEN 29 ELSE 28
      [] month = 3 -> 31
      [] month = 4 -> 30
      [] month = 5 -> 31
      [] month = 6 -> 30
      [] month = 7 -> 31
      [] month = 8 -> 31
      [] month = 9 -> 30
      [] month = 10 -> 31
      [] month = 11 -> 30
      [] month = 12 -> 31
      [] OTHER -> 30

\* the locals and fields the loop works on
Loop(day, month, year, remaining, flt) ==
    [day |-> day, month |-> month, year |-> year,
     remaining_days |-> remaining, fault |-> flt]

\* one iteration of the while loop; a panic leaves the fields as they were
\* written up to the failing operation
advance_iteration(st, checks) ==
    LET dim   == days_in_month(st.month, st.year)
        \* days_in_month - self.day + 1
        under == u32_sub_overflows(dim, st.day)
        left  == dim - st.day
        over1 == u32_add_overflows(left, 1)
        room  == left + 1
        days_to_advance == u32_min(st.remaining_days, room)
        \* self.day += days_to_advance
        over2 == u32_add_overflows(st.day, days_to_advance)
        day1  == st.day + days_to_advance
        rem1  == st.remaining_days - days_to_advance
        flt1  == IF under \/ over1 \/ over2 THEN "wrap" ELSE st.fault
        \* if self.day > days_in_month
        roll  == u32_lt(dim, day1)
        \* self.month += 1
        over3 == st.month + 1 >= U8
        month1 == (st.month + 1) % U8
        \* self.year += 1
        over4 == st.year + 1 >= U16
        year1 == (st.year + 1) % U16
    IN  IF checks /\ (under \/ over1 \/ over2)
          THEN [st EXCEPT !.fault = "panic"]
        ELSE IF ~roll
          THEN Loop(day1, st.month, st.year, rem1, flt1)
        ELSE IF over3
          THEN Loop(1, IF checks THEN st.month ELSE month1, st.year, rem1,
                    Overflow(checks))
        ELSE IF month1 <= 12
          THEN Loop(1, month1, st.year, rem1, flt1)
        ELSE IF over4
          THEN Loop(1, 1, IF checks THEN st.year ELSE year1, rem1,
                    Overflow(checks))
        ELSE Loop(1, 1, year1, rem1, flt1)

\* up to 2^level passes of while remaining_days > 0, stopping where the test
\* fails or a pass has panicked: the first half, then the second half from
\* the state the first half reaches
RECURSIVE advance_passes(_, _, _)
advance_passes(st, checks, level) ==
    IF st.fault = "panic" \/ st.remaining_days = 0 THEN st
    ELSE IF level = 0 THEN advance_iteration(st, checks)
    ELSE CHOOSE r \in {advance_passes(mid, checks, level - 1) :
                           mid \in {advance_passes(st, checks, level - 1)}} : TRUE

\* the passes of the loop in runs of 1, 2, 4, ... until the test fails
RECURSIVE advance_from(_, _, _)
advance_from(st, checks, level) ==
    IF st.fault = "panic" \/ st.remaining_days = 0 THEN st
    ELSE CHOOSE r \in {advance_from(mid, checks, level + 1) :
                           mid \in {advance_passes(st, checks, level)}} : TRUE

\* while remaining_days > 0
advance_loop(st, checks) == advance_from(st, checks, 0)

\* a variant that runs the loop body once
advance_date_one_iteration(state, days, checks) ==
    LET st == Loop(state.day, state.month, state.year, days, "none")
        end == IF days = 0 THEN st ELSE advance_iteration(st, checks)
    IN  [state |-> [state EXCEPT !.day = end.day, !.month = end.month,
                                 !.year = end.year],
         fault |-> end.fault]

\* PlayerState::advance_date : the state it leaves and how its arithmetic went
advance_date(state, days, checks) ==
    LET end == advance_loop(Loop(state.day, state.month, state.year, days, "none"),
                            checks)
    IN  [state |-> [state EXCEPT !.day = end.day, !.month = end.month,
                                 !.year = end.year],
         fault |-> end.fault]

----------------------------------------------------------------------------
(* PlayerState calls *)

\* the arguments of a call: a name (leader or disease), the companions, days
PArg(name, names, days) == [name |-> name, names |-> names, days |-> days]

NoArg == PArg("", << >>, 0)

\* a record of one call: operation, roster index (0 when none), arguments, result
PCall(op, who, arg, ret) == [op |-> op, who |-> who, arg |-> arg, ret |-> ret]

\* the leader and companions a party is set up with
SetupCalls == {PArg("Dan", << >>, 0), PArg("Amanda", <<"Bob", "Cid">>, 0)}

\* the diseases the roster's members are exposed to
PartyDisease == {"Cholera"}

SetupParty(a) ==
    /\ Len(ps.party) + 1 + Len(a.names) <= MaxParty
    /\ ps' = setup_party(ps, a.name, a.names)
    /\ pspre' = ps
    /\ pslast' = PCall("setup_party", 0, a, RetUnit)
    /\ UNCHANGED <<overflow_checks, gameVars, buttonVars, assetVars,
                   effective, remaining_days, fault, ncalls, trace, invVars,
                   memVars>>

LivingPartyMembers ==
    /\ pspre' = ps
    /\ pslast' = PCall("living_party_members", 0, NoArg,
                       RetNum(living_party_members(ps)))
    /\ UNCHANGED <<ps, overflow_checks, gameVars, buttonVars, assetVars,
                   effective, remaining_days, fault, ncalls, trace, invVars,
                   memVars>>

\* the PartyMember methods, called on the i-th record of the roster
PartyContractDisease(i, d) ==
    /\ i \in 1..Len(ps.party)
    /\ ps' = [ps EXCEPT !.party[i] = contract_disease(@, d)]
    /\ pspre' = ps
    /\ pslast' = PCall("contract_disease", i, PArg(d, << >>, 0), RetUnit)
    /\ UNCHANGED <<overflow_checks, gameVars, buttonVars, assetVars,
                   effective, remaining_days, fault, ncalls, trace, invVars,
                   memVars>>

PartyRecoverFromDisease(i, d) ==
    /\ i \in 1..Len(ps.party)
    /\ ps' = [ps EXCEPT !.party[i] = recover_from_disease(@, d)]
    /\ pspre' = ps
    /\ pslast' = PCall("recover_from_disease", i, PArg(d, << >>, 0), RetUnit)
    /\ UNCHANGED <<overflow_checks, gameVars, buttonVars, assetVars,
                   effective, remaining_days, fault, ncalls, trace, invVars,
                   memVars>>

PartyDegradeHealth(i) ==
    /\ i \in 1..Len(ps.party)
    /\ ps' = [ps EXCEPT !.party[i] = degrade_health(@)]
    /\ pspre' = ps
    /\ pslast' = PCall("degrade_health", i, NoArg, RetUnit)
    /\ UNCHANGED <<overflow_checks, gameVars, buttonVars, assetVars,
                   effective, remaining_days, fault, ncalls, trace, invVars,
                   memVars>>

PartyImproveHealth(i) ==
    /\ i \in 1..Len(ps.party)
    /\ ps' = [ps EXCEPT !.party[i] = improve_health(@)]
    /\ pspre' = ps
    /\ pslast' = PCall("improve_health", i, NoArg, RetUnit)
    /\ UNCHANGED <<overflow_checks, gameVars, buttonVars, assetVars,
                   effective, remaining_days, fault, ncalls, trace, invVars,
                   memVars>>

\* the numbers of days a call advances by
DayCounts == {0, 1, 2, 10, 31, 59, 366, 400}

\* a call that panicked has unwound; no further call is made on the state
AdvanceDate(n) ==
    /\ fault # "panic"
    /\ ncalls < MaxCalls
    /\ LET r == advance_date(ps, n, overflow_checks)
       IN  /\ ps' = r.state
           /\ fault' = r.fault
    /\ pspre' = ps
    /\ pslast' = PCall("advance_date", 0, PArg("", << >>, n), RetUnit)
    /\ ncalls' = ncalls + 1
    /\ UNCHANGED <<overflow_checks, gameVars, buttonVars, assetVars,
                   effective, remaining_days, trace, invVars, memVars>>

----------------------------------------------------------------------------
(* Inventory::add_item over the whole range of u32 *)

\* item.quantity += quantity leaves the range of u32
add_item_overflows(its, item_type, quantity) ==
    /\ item_type \in DOMAIN its
    /\ u32_add_overflows(its[item_type].quantity, quantity)

\* quantities at both ends of u32: 0, 1, 2 and 2^32 - 3, 2^32 - 2, 2^32 - 1
WideQuantities == {0, 1, 2, U32Max - 2, U32Max - 1, U32Max}

\* add_item with the width of quantity: where the sum overflows, a build with
\* overflow checks panics before the field is written, a build without them
\* stores the sum modulo 2^32
AddItemU32(k, q) ==
    /\ fault # "panic"
    /\ ncalls < MaxSteps
    /\ k \in stockable
    /\ IF add_item_overflows(items, k, q)
       THEN /\ items' = IF overflow_checks THEN items ELSE add_item(items, k, q)
            /\ fault' = Overflow(overflow_checks)
       ELSE /\ items' = add_item(items, k, q)
            /\ fault' = "none"
    /\ pre' = Inventory(items, max_capacity)
    /\ last' = Call("add_item", k, q, RetUnit)
    /\ ncalls' = ncalls + 1
    /\ UNCHANGED <<stockable, max_capacity, memVars, ps, pspre, pslast,
                   overflow_checks, gameVars, buttonVars, assetVars,
                   effective, remaining_days, trace>>

----------------------------------------------------------------------------
(* A journey: one PlayerState and the wagon's Inventory, called in any order *)

\* an entry of the trace: the operation and its numeric argument (the number
\* of names for setup_party)
Step(op, n) == [op |-> op, n |-> n]

\* the parties a journey is set up with
JourneySetups == SetupCalls \cup {PArg("Amanda", <<"Bob", "Cid", "Dee">>, 0)}

\* pounds of food bought in one purchase
FoodPurchases == {100, 200}

\* tenths of a pound of food eaten in one call
FoodPortions == {500, 1000, 1005}

\* days travelled in one call
JourneyDays == {1, 10}

JourneySetupParty(a) ==
    /\ Len(trace) < MaxSteps
    /\ ps' = setup_party(ps, a.name, a.names)
    /\ pspre' = ps
    /\ pslast' = PCall("setup_party", 0, a, RetUnit)
    /\ pre' = Inventory(items, max_capacity)
    /\ trace' = Append(trace, Step("setup_party", 1 + Len(a.names)))
    /\ UNCHANGED <<stockable, items, max_capacity, last, overflow_checks,
                   gameVars, buttonVars, assetVars, effective,
                   remaining_days, fault, ncalls, memVars>>

JourneyAdvanceDate(n) ==
    /\ Len(trace) < MaxSteps
    /\ LET r == advance_date(ps, n, overflow_checks)
       IN  /\ ps' = r.state
           /\ fault' = r.fault
    /\ pspre' = ps
    /\ pslast' = PCall("advance_date", 0, PArg("", << >>, n), RetUnit)
    /\ pre' = Inventory(items, max_capacity)
    /\ trace' = Append(trace, Step("advance_date", n))
    /\ UNCHANGED <<stockable, items, max_capacity, last, overflow_checks,
                   gameVars, buttonVars, assetVars, effective,
                   remaining_days, ncalls, memVars>>

JourneyAddFood(q) ==
    /\ Len(trace) < MaxSteps
    /\ items' = add_item(items, "Food", q)
    /\ pre' = Inventory(items, max_capacity)
    /\ last' = Call("add_item", "Food", q, RetUnit)
    /\ pspre' = ps
    /\ trace' = Append(trace, Step("add_item", q))
    /\ UNCHANGED <<stockable, max_capacity, ps, pslast, overflow_checks,
                   gameVars, buttonVars, assetVars, effective,
                   remaining_days, fault, ncalls, memVars>>

JourneyUseFood(p) ==
    /\ Len(trace) < MaxSteps
    /\ LET r == use_food(items, p)
       IN  /\ items' = r.items
           /\ last' = Call("use_food", "Food", p, RetBool(r.ret))
    /\ pre' = Inventory(items, max_capacity)
    /\ pspre' = ps
    /\ trace' = Append(trace, Step("use_food", p))
    /\ UNCHANGED <<stockable, max_capacity, ps, pslast, overflow_checks,
                   gameVars, buttonVars, assetVars, effective,
                   remaining_days, fault, ncalls, memVars>>

----------------------------------------------------------------------------
(* PlayerState::advance_date, one iteration of its loop at a time *)

\* let mut remaining_days = days, on a state no call has been made on
EnterAdvanceDate(n) ==
    /\ pslast.op = "new"
    /\ remaining_days' = n
    /\ pspre' = ps
    /\ pslast' = PCall("advance_date", 0, PArg("", << >>, n), RetUnit)
    /\ UNCHANGED <<ps, overflow_checks, gameVars, buttonVars, assetVars,
                   effective, fault, ncalls, trace, invVars, memVars>>

\* a pass that shifts the month by one more whenever it rolls the month over
AdvanceDateIteration_rolls_twice ==
    /\ pslast.op \in {"advance_date", "iteration"}
    /\ fault # "panic"
    /\ remaining_days # 0
    /\ LET nx == advance_iteration(
                    Loop(ps.day, ps.month, ps.year, remaining_days, fault),
                    overflow_checks)
       IN  /\ ps' = [ps EXCEPT !.day = nx.day, !.year = nx.year,
                               !.month = IF nx.month # ps.month
                                         THEN (nx.month % 12) + 1 ELSE nx.month]
           /\ remaining_days' = nx.remaining_days
           /\ fault' = nx.fault
    /\ pspre' = ps
    /\ pslast' = PCall("iteration", 0, PArg("", << >>, remaining_days), RetUnit)
    /\ UNCHANGED <<overflow_checks, gameVars, buttonVars, assetVars,
                   effective, ncalls, trace, invVars, memVars>>

\* one pass through the body of while remaining_days > 0; the call returns
\* when the test fails
AdvanceDateIteration ==
    /\ pslast.op \in {"advance_date", "iteration"}
    /\ fault # "panic"
    /\ remaining_days # 0
    /\ LET nx == advance_iteration(
                    Loop(ps.day, ps.month, ps.year, remaining_days, fault),
                    overflow_checks)
       IN  /\ ps' = [ps EXCEPT !.day = nx.day, !.month = nx.month, !.year = nx.year]
           /\ remaining_days' = nx.remaining_days
           /\ fault' = nx.fault
    /\ pspre' = ps
    /\ pslast' = PCall("iteration", 0, PArg("", << >>, remaining_days), RetUnit)
    /\ UNCHANGED <<overflow_checks, gameVars, buttonVars, assetVars,
                   effective, ncalls, trace, invVars, memVars>>

----------------------------------------------------------------------------
(* PlayerState::advance_date called repeatedly from the default date *)

\* the days from Mar 1 1848 to Dec 30 65535, the eve of the last day a u16
\* year can hold
FarDays == 23261980

\* the days of the other calls
CalendarDays == {0, 1, 2, 31}

\* the first call of a run may advance by FarDays
AdvanceDateFar ==
    /\ trace = << >>
    /\ JourneyAdvanceDate(FarDays)

\* a call that panicked has unwound; no further call is made on the state
CalendarAdvanceDate(n) ==
    /\ fault # "panic"
    /\ JourneyAdvanceDate(n)

----------------------------------------------------------------------------
(* Inventory::can_add and total_weight in f32, for an inventory of            *)
(* Ammunition.  An f32 below 8.0 that is a multiple of 2^-27 is kept as its  *)
(* number of units of 2^-27: 0.1f32 is 13421773 units, 2.0 is 2^28 units.    *)
(* Products and sums are formed exactly and then rounded to the nearest f32, *)
(* ties to even, as the hardware does.                                       *)

\* the unit weight 0.1 of Ammunition as an f32
F32Ammunition == 13421773

\* the distance between neighbouring f32 values at v: 1 unit below 2^24
\* units (24 significant bits), doubling with every binade
RECURSIVE f32_ulp(_)
f32_ulp(v) == IF v < 16777216 THEN 1 ELSE 2 * f32_ulp(v \div 2)

\* the f32 nearest to the exact value v, ties to the even significand
f32_round(v) ==
    LET u == f32_ulp(v)
        q == v \div u
        r == v % u
    IN  IF 2 * r > u \/ (2 * r = u /\ q % 2 = 1) THEN (q + 1) * u ELSE q * u

\* Inventory::total_weight : the sum over the one record, quantity as f32 *
\* weight_per_unit
total_weight_f32(its) ==
    IF "Ammunition" \in DOMAIN its
    THEN f32_round(its["Ammunition"].quantity * F32Ammunition)
    ELSE 0

\* Inventory::can_add(Ammunition, quantity) : the unit weight is 0.1 from the
\* record and from the default table alike
can_add_f32(its, cap, quantity) ==
    LET additional_weight == f32_round(F32Ammunition * quantity)
    IN  f32_round(total_weight_f32(its) + additional_weight) <= cap

\* capacities 0.0, 2.0 and 2.1 (as an f32: 2.0999999046325684)
GuardedCapacities == {0, 268435456, 281857216}

\* quantities of Ammunition bought in one purchase
AmmunitionPurchases == {0, 1, 2, 20}

\* add_item(Ammunition, q), made only where can_add(Ammunition, q) is true
GuardedAddAmmunition(q) ==
    /\ get_quantity(items, "Ammunition") + q <= MaxAmmunition
    /\ can_add_f32(items, max_capacity, q)
    /\ items' = add_item(items, "Ammunition", q)
    /\ pre' = Inventory(items, max_capacity)
    /\ last' = Call("add_item", "Ammunition", q, RetUnit)
    /\ UNCHANGED <<stockable, max_capacity, memVars, psVars, gameVars,
                   buttonVars, assetVars>>

----------------------------------------------------------------------------
(* PartyMember::contract_disease, counting the calls that took effect *)

IllnessContractDisease(d) ==
    /\ Contains(member.diseases, d) \/ effective < MaxRun
    /\ member' = contract_disease(member, d)
    /\ mpre' = member
    /\ mlast' = MCall("contract_disease", d, RetUnit)
    /\ effective' = IF Contains(member.diseases, d) THEN effective ELSE effective + 1
    /\ UNCHANGED <<degradeRun, invVars, ps, pspre, pslast, overflow_checks,
                   gameVars, buttonVars, assetVars, fault, ncalls, trace,
                   remaining_days>>

----------------------------------------------------------------------------
(* PlayerState::advance_date on a journey whose roster is set up *)

\* the numbers of days a journey with a roster advances by
RosterDays == {1, 400}

\* the one setup of the journey
RosterSetupParty(a) ==
    /\ ps.party = << >>
    /\ SetupParty(a)

RosterAdvanceDate(n) ==
    /\ ps.party # << >>
    /\ AdvanceDate(n)

----------------------------------------------------------------------------
(* game.rs, scenes/title_screen.rs *)

\* enum GameState
GameState == {"TitleScreen", "Introduction", "Options", "MainMenu", "Setup",
              "Travel", "Hunting", "RiverCrossing", "Trading", "Event",
              "Landmark", "GameOver"}

\* the keys Game::update and TitleScreen::update ask about
KeyCode == {"Space", "Enter", "I", "O", "Escape", "Q"}

\* the window, as screen_width() and screen_height() report it
ScreenWidth == 800
ScreenHeight == 600

\* the keys that go down in one frame: none, one, or two that
\* TitleScreen::update ranks
KeySets == {{}} \cup {{k} : k \in KeyCode}
              \cup {{"Space", "I"}, {"I", "O"}, {"O", "Escape"}}

\* where the mouse is, in pixels: on the left buttons, at their right edge
\* and on the Travel button; above the buttons and on each of them
MouseX == {100, 200, 400}
MouseY == {100, 220, 280, 340, 550}

\* what macroquad reports during one frame: the keys that went down in it,
\* whether the left button went down in it, and mouse_position()
Input == [keys : KeySets, left : BOOLEAN, x : MouseX, y : MouseY]

NoInput == [keys |-> {}, left |-> FALSE, x |-> 100, y |-> 100]

is_key_pressed(input, key_code) == key_code \in input.keys

is_mouse_button_pressed(input) == input.left

\* Game::new ; the title screen is always Some and its time counter is not
\* read by update
Game_new == [state |-> "TitleScreen", exit_requested |-> FALSE,
             assets_loaded |-> FALSE]

\* TitleScreen::update : the Option<TitleAction> it returns
TitleScreen_update(input) ==
    IF is_key_pressed(input, "Space") \/ is_key_pressed(input, "Enter")
    THEN "StartGame"
    ELSE IF is_key_pressed(input, "I") THEN "Introduction"
    ELSE IF is_key_pressed(input, "O") THEN "Options"
    ELSE IF is_key_pressed(input, "Escape") \/ is_key_pressed(input, "Q") THEN "Quit"
    ELSE IF is_mouse_button_pressed(input)
    THEN IF /\ input.y > ScreenHeight - 100
            /\ 2 * input.x > ScreenWidth - 150
            /\ 2 * input.x < ScreenWidth + 150
         THEN "StartGame"
         ELSE IF input.x < 200
         THEN IF input.y > 200 /\ input.y < 240 THEN "Introduction"
              ELSE IF input.y > 260 /\ input.y < 300 THEN "Options"
              ELSE IF input.y > 320 /\ input.y < 360 THEN "Quit"
              ELSE "None"
         ELSE "None"
    ELSE "None"

\* a mutant of transition_to : entering a scene withdraws the exit request
transition_to_clears_exit(g, new_state) ==
    [g EXCEPT !.state = new_state, !.exit_requested = FALSE]

\* Game::transition_to
transition_to(g, new_state) == [g EXCEPT !.state = new_state]

\* a mutant of Game_update : StartGame goes on to the Setup scene
Game_update_starts_setup(g, input) ==
    IF g.assets_loaded /\ g.state = "TitleScreen"
          /\ TitleScreen_update(input) = "StartGame"
    THEN transition_to(g, "Setup")
    ELSE g

\* Game::update
Game_update(g, input) ==
    IF ~g.assets_loaded THEN g
    ELSE CASE g.state = "TitleScreen" ->
                 LET action == TitleScreen_update(input)
                 IN  IF action = "StartGame" THEN transition_to(g, "MainMenu")
                     ELSE IF action = "Introduction"
                     THEN transition_to(g, "Introduction")
                     ELSE IF action = "Options" THEN transition_to(g, "Options")
                     ELSE IF action = "Quit"
                     THEN [g EXCEPT !.exit_requested = TRUE]
                     ELSE g
           [] g.state \in {"Introduction", "Options"} ->
                 IF \/ is_key_pressed(input, "Space")
                    \/ is_key_pressed(input, "Escape")
                    \/ is_mouse_button_pressed(input)
                 THEN transition_to(g, "TitleScreen")
                 ELSE g
           [] g.state = "MainMenu" ->
                 IF is_key_pressed(input, "Escape")
                 THEN transition_to(g, "TitleScreen")
                 ELSE g
           [] OTHER ->
                 IF is_key_pressed(input, "Escape")
                 THEN transition_to(g, "TitleScreen")
                 ELSE g

\* Game::load_assets ; the title screen's texture loads or fails to, and
\* either way the assets count as loaded
Game_load_assets(g) == [g EXCEPT !.assets_loaded = TRUE]

\* a record of one Game call: method, the frame's input, and what the title
\* screen returned when it was asked
GCall(op, input, action) == [op |-> op, input |-> input, action |-> action]

\* main calls load_assets once, before the loop
LoadAssets ==
    /\ glast.op = "new"
    /\ game' = Game_load_assets(game)
    /\ gpre' = game
    /\ glast' = GCall("load_assets", NoInput, "None")
    /\ UNCHANGED <<invVars, memVars, psVars, buttonVars, assetVars>>

\* one frame of the main loop
Update(input) ==
    /\ game' = Game_update(game, input)
    /\ gpre' = game
    /\ glast' = GCall("update", input,
                      IF game.assets_loaded /\ game.state = "TitleScreen"
                      THEN TitleScreen_update(input) ELSE "None")
    /\ UNCHANGED <<invVars, memVars, psVars, buttonVars, assetVars>>

----------------------------------------------------------------------------
(* Game, called by any owner *)

\* load_assets, whenever the assets are not loaded yet
GameLoadAssets ==
    /\ ~game.assets_loaded
    /\ game' = Game_load_assets(game)
    /\ gpre' = game
    /\ glast' = GCall("load_assets", NoInput, "None")
    /\ UNCHANGED <<invVars, memVars, psVars, buttonVars, assetVars>>

\* transition_to is public: any scene may be asked for
TransitionTo(new_state) ==
    /\ game' = transition_to(game, new_state)
    /\ gpre' = game
    /\ glast' = GCall("transition_to", NoInput, "None")
    /\ UNCHANGED <<invVars, memVars, psVars, buttonVars, assetVars>>

----------------------------------------------------------------------------
(* scenes/button.rs.  click_timer and dt are f32: a value is kept as its     *)
(* number of units of 2^-30, which is exact for the values used here, and a  *)
(* sum is formed exactly and then rounded to the nearest f32 by f32_round.   *)

\* enum ButtonState
ButtonState == {"Normal", "Hover", "Clicked"}

\* the literal 0.1 that click_timer is compared with, as an f32
ClickTime == 107374184

\* frame times: 0, 2^-30 s, 0.0625 s, 0.05 s (half of 0.1f32) and 0.1f32
FrameTimes == {0, 1, 67108864, 53687092, 107374184}

\* what one frame brings to Button::update : mouse_position(), whether the
\* left button went down, and dt
Frame == [left : BOOLEAN, x : MouseX, y : MouseY, dt : FrameTimes]

NoFrame == [left |-> FALSE, x |-> 100, y |-> 100, dt |-> 0]

\* Button::new(ButtonAction::Introduction, vec2(50, 200), None, 1.0, 1.0)
Button_new ==
    [position |-> [x |-> 50, y |-> 200], width |-> 113, height |-> 20,
     state |-> "Normal", action |-> "Introduction", click_timer |-> 0]

\* is_hovering in Button::update
is_hovering(b, frame) ==
    /\ frame.x >= b.position.x
    /\ frame.x <= b.position.x + b.width
    /\ frame.y >= b.position.y
    /\ frame.y <= b.position.y + b.height

\* Button::update : the button it leaves
Button_update_state(b, frame) ==
    IF b.state = "Clicked"
    THEN LET t == f32_round(b.click_timer + frame.dt)
         IN  IF t >= ClickTime
             THEN [b EXCEPT !.state = "Normal", !.click_timer = 0]
             ELSE [b EXCEPT !.click_timer = t]
    ELSE IF is_hovering(b, frame)
    THEN IF frame.left
         THEN [b EXCEPT !.state = "Clicked", !.click_timer = 0]
         ELSE [b EXCEPT !.state = "Hover"]
    ELSE [b EXCEPT !.state = "Normal"]

\* Button::update : the Option<ButtonAction> it returns
Button_update_action(b, frame) ==
    LET was_clicked == b.state = "Clicked"
    IN  IF was_clicked /\ Button_update_state(b, frame).state # "Clicked"
        THEN b.action
        ELSE "None"

\* a record of one Button call: method, the frame, the action returned, and
\* the numbers of presses accepted and of actions returned up to here
BCall(op, frame, action, presses, actions) ==
    [op |-> op, frame |-> frame, action |-> action, presses |-> presses,
     actions |-> actions]

\* one frame in which the button's owner updates it
ButtonUpdate(frame) ==
    /\ ncalls < MaxFrames
    /\ button' = Button_update_state(button, frame)
    /\ bpre' = button
    /\ blast' = BCall("update", frame, Button_update_action(button, frame),
                      blast.presses +
                         (IF button.state # "Clicked" /\ is_hovering(button, frame)
                               /\ frame.left THEN 1 ELSE 0),
                      blast.actions +
                         (IF Button_update_action(button, frame) # "None"
                          THEN 1 ELSE 0))
    /\ ncalls' = ncalls + 1
    /\ UNCHANGED <<ps, pspre, pslast, overflow_checks, fault, trace,
                   remaining_days, effective, invVars, memVars, gameVars,
                   assetVars>>

----------------------------------------------------------------------------
(* engine/asset_loader.rs *)

\* AssetManager::new : an empty cache
AssetManager_new == [name \in {} |-> 0]

\* the cache and the number of loads asked for so far
Cache(t, n) == [textures |-> t, loads |-> n]

\* results: Ok(texture) or Some(texture), Err(..), and None or unit
AOk(texture) == [ok |-> TRUE, texture |-> texture]
AErr == [ok |-> FALSE, texture |-> -1]
ANone == [ok |-> FALSE, texture |-> 0]

\* a record of one AssetManager call: method, the names passed, the names
\* whose files macroquad can load during the call, the result
ACall(op, names, files, ret) ==
    [op |-> op, names |-> names, files |-> files, ret |-> ret]

\* the texture files the game asks for
TextureNames == {"TITLE.png", "BUTTONS.png", "MAP.png"}

\* the result of one call, with the cache and the load count it leaves
AResult(t, n, ret) == [textures |-> t, loads |-> n, ret |-> ret]

\* a mutant of load_texture : the cache is not consulted
load_texture_reloads(t, n, name, files) ==
    IF name \in files
    THEN AResult([k \in DOMAIN t \cup {name} |-> IF k = name THEN n + 1 ELSE t[k]],
                 n + 1, AOk(n + 1))
    ELSE AResult(t, n + 1, AErr)

\* AssetManager::load_texture ; macroquad's load_texture hands out a new
\* Texture2D, numbered by the load that made it, or fails
load_texture(t, n, name, files) ==
    IF name \in DOMAIN t THEN AResult(t, n, AOk(t[name]))
    ELSE IF name \in files
    THEN AResult([k \in DOMAIN t \cup {name} |-> IF k = name THEN n + 1 ELSE t[k]],
                 n + 1, AOk(n + 1))
    ELSE AResult(t, n + 1, AErr)

\* AssetManager::preload_textures : Ok(()) is AOk(0)
RECURSIVE preload_textures(_, _, _, _)
preload_textures(t, n, names, files) ==
    IF names = << >> THEN AResult(t, n, AOk(0))
    ELSE LET r == load_texture(t, n, Head(names), files)
         IN  IF r.ret.ok
             THEN preload_textures(r.textures, r.loads, Tail(names), files)
             ELSE AResult(r.textures, r.loads, AErr)

\* AssetManager::get_texture
get_texture(t, name) == IF name \in DOMAIN t THEN AOk(t[name]) ELSE ANone

\* the lists of names preloaded
PreloadLists ==
    {<< >>, <<"TITLE.png">>, <<"TITLE.png", "BUTTONS.png">>,
     <<"TITLE.png", "BUTTONS.png", "MAP.png">>,
     <<"BUTTONS.png", "TITLE.png", "BUTTONS.png">>, <<"MAP.png", "MAP.png">>}

LoadTexture(name, files) ==
    /\ loads < MaxLoads
    /\ LET r == load_texture(textures, loads, name, files)
       IN  /\ textures' = r.textures
           /\ loads' = r.loads
           /\ alast' = ACall("load_texture", <<name>>, files, r.ret)
    /\ apre' = Cache(textures, loads)
    /\ UNCHANGED <<invVars, memVars, psVars, gameVars, buttonVars>>

PreloadTextures(names, files) ==
    /\ loads + Len(names) <= MaxLoads
    /\ LET r == preload_textures(textures, loads, names, files)
       IN  /\ textures' = r.textures
           /\ loads' = r.loads
           /\ alast' = ACall("preload_textures", names, files, r.ret)
    /\ apre' = Cache(textures, loads)
    /\ UNCHANGED <<invVars, memVars, psVars, gameVars, buttonVars>>

GetTexture(name) ==
    /\ alast' = ACall("get_texture", <<name>>, {}, get_texture(textures, name))
    /\ apre' = Cache(textures, loads)
    /\ UNCHANGED <<textures, loads, invVars, memVars, psVars, gameVars,
                   buttonVars>>

----------------------------------------------------------------------------
(* Specifications *)

InvNext ==
    \/ \E k \in ItemType, q \in Quantities : AddItem(k, q)
    \/ \E k \in ItemType, q \in Quantities : RemoveItem(k, q)
    \/ \E k \in ItemType : GetQuantity(k)
    \/ TotalWeight
    \/ \E k \in ItemType, q \in Quantities : CanAdd(k, q)
    \/ GetAllItems
    \/ CapacityInfo
    \/ \E p \in Pounds : UseFood(p)
    \/ \E q \in Quantities : UseAmmunition(q)
    \/ UseMedicalSupply

MemNext ==
    \/ \E d \in Disease : ContractDisease(d)
    \/ \E d \in Disease : RecoverFromDisease(d)
    \/ DegradeHealth
    \/ ImproveHealth
    \/ IsAlive

\* the part of the state a specification does not use stays as constructed
InitInventory ==
    /\ stockable \in KindGroups
    /\ items = Inventory_new
    /\ max_capacity \in Capacities
    /\ pre = Inventory(items, max_capacity)
    /\ last = Call("new", "none", 0, RetUnit)
    /\ member = PartyMember_new("Amanda", 30, TRUE)
    /\ mpre = member
    /\ mlast = MCall("new", "none", RetUnit)
    /\ degradeRun = 0
    /\ ps = PlayerState_new
    /\ pspre = ps
    /\ pslast = PCall("new", 0, NoArg, RetUnit)
    /\ overflow_checks = FALSE
    /\ fault = "none"
    /\ ncalls = 0
    /\ trace = << >>
    /\ effective = 0
    /\ game = Game_new
    /\ gpre = game
    /\ glast = GCall("new", NoInput, "None")
    /\ button = Button_new
    /\ bpre = button
    /\ blast = BCall("new", NoFrame, "None", 0, 0)
    /\ textures = AssetManager_new
    /\ loads = 0
    /\ apre = Cache(textures, loads)
    /\ alast = ACall("new", << >>, {}, ANone)
    /\ remaining_days = 0

InitMember ==
    /\ member \in NewMembers
    /\ mpre = member
    /\ mlast = MCall("new", "none", RetUnit)
    /\ degradeRun = 0
    /\ stockable = {}
    /\ items = Inventory_new
    /\ max_capacity = 0
    /\ pre = Inventory(items, max_capacity)
    /\ last = Call("new", "none", 0, RetUnit)
    /\ ps = PlayerState_new
    /\ pspre = ps
    /\ pslast = PCall("new", 0, NoArg, RetUnit)
    /\ overflow_checks = FALSE
    /\ fault = "none"
    /\ ncalls = 0
    /\ trace = << >>
    /\ effective = 0
    /\ game = Game_new
    /\ gpre = game
    /\ glast = GCall("new", NoInput, "None")
    /\ button = Button_new
    /\ bpre = button
    /\ blast = BCall("new", NoFrame, "None", 0, 0)
    /\ textures = AssetManager_new
    /\ loads = 0
    /\ apre = Cache(textures, loads)
    /\ alast = ACall("new", << >>, {}, ANone)
    /\ remaining_days = 0

\* a journey state and its roster
InitParty ==
    /\ ps = PlayerState_new
    /\ pspre = ps
    /\ pslast = PCall("new", 0, NoArg, RetUnit)
    /\ overflow_checks = FALSE
    /\ fault = "none"
    /\ ncalls = 0
    /\ trace = << >>
    /\ effective = 0
    /\ game = Game_new
    /\ gpre = game
    /\ glast = GCall("new", NoInput, "None")
    /\ button = Button_new
    /\ bpre = button
    /\ blast = BCall("new", NoFrame, "None", 0, 0)
    /\ textures = AssetManager_new
    /\ loads = 0
    /\ apre = Cache(textures, loads)
    /\ alast = ACall("new", << >>, {}, ANone)
    /\ remaining_days = 0
    /\ stockable = {}
    /\ items = Inventory_new
    /\ max_capacity = 0
    /\ pre = Inventory(items, max_capacity)
    /\ last = Call("new", "none", 0, RetUnit)
    /\ member = PartyMember_new("Amanda", 30, TRUE)
    /\ mpre = member
    /\ mlast = MCall("new", "none", RetUnit)
    /\ degradeRun = 0

PartyNext ==
    \/ \E a \in SetupCalls : SetupParty(a)
    \/ LivingPartyMembers
    \/ \E i \in 1..MaxParty, d \in PartyDisease : PartyContractDisease(i, d)
    \/ \E i \in 1..MaxParty, d \in PartyDisease : PartyRecoverFromDisease(i, d)
    \/ \E i \in 1..MaxParty : PartyDegradeHealth(i)
    \/ \E i \in 1..MaxParty : PartyImproveHealth(i)

\* the inventory in isolation
SpecInventory == InitInventory /\ [][InvNext]_vars

\* one party member in isolation
SpecMember == InitMember /\ [][MemNext]_vars

\* the roster of a journey state
SpecParty == InitParty /\ [][PartyNext]_vars

\* the years the calendar starts in: a leap year, a common year, a century
StartYears == {1848, 1849, 1900}

\* a journey state at any valid date of the starting years, in either build
InitDate ==
    /\ \E y \in StartYears, m \in 1..12 :
         \E d \in 1..days_in_month(m, y) :
            ps = [PlayerState_new EXCEPT !.day = d, !.month = m, !.year = y]
    /\ pspre = ps
    /\ pslast = PCall("new", 0, NoArg, RetUnit)
    /\ overflow_checks \in BOOLEAN
    /\ fault = "none"
    /\ ncalls = 0
    /\ trace = << >>
    /\ effective = 0
    /\ game = Game_new
    /\ gpre = game
    /\ glast = GCall("new", NoInput, "None")
    /\ button = Button_new
    /\ bpre = button
    /\ blast = BCall("new", NoFrame, "None", 0, 0)
    /\ textures = AssetManager_new
    /\ loads = 0
    /\ apre = Cache(textures, loads)
    /\ alast = ACall("new", << >>, {}, ANone)
    /\ remaining_days = 0
    /\ stockable = {}
    /\ items = Inventory_new
    /\ max_capacity = 0
    /\ pre = Inventory(items, max_capacity)
    /\ last = Call("new", "none", 0, RetUnit)
    /\ member = PartyMember_new("Amanda", 30, TRUE)
    /\ mpre = member
    /\ mlast = MCall("new", "none", RetUnit)
    /\ degradeRun = 0

DateNext == \E n \in DayCounts : AdvanceDate(n)

\* the calendar of a journey state
SpecDate == InitDate /\ [][DateNext]_vars

\* a new journey state and the wagon's empty inventory, in either build
InitJourney ==
    /\ ps = PlayerState_new
    /\ pspre = ps
    /\ pslast = PCall("new", 0, NoArg, RetUnit)
    /\ overflow_checks \in BOOLEAN
    /\ fault = "none"
    /\ ncalls = 0
    /\ trace = << >>
    /\ effective = 0
    /\ game = Game_new
    /\ gpre = game
    /\ glast = GCall("new", NoInput, "None")
    /\ button = Button_new
    /\ bpre = button
    /\ blast = BCall("new", NoFrame, "None", 0, 0)
    /\ textures = AssetManager_new
    /\ loads = 0
    /\ apre = Cache(textures, loads)
    /\ alast = ACall("new", << >>, {}, ANone)
    /\ remaining_days = 0
    /\ stockable = {"Food"}
    /\ items = Inventory_new
    /\ max_capacity = 20000
    /\ pre = Inventory(items, max_capacity)
    /\ last = Call("new", "none", 0, RetUnit)
    /\ member = PartyMember_new("Amanda", 30, TRUE)
    /\ mpre = member
    /\ mlast = MCall("new", "none", RetUnit)
    /\ degradeRun = 0

JourneyNext ==
    \/ \E a \in JourneySetups : JourneySetupParty(a)
    \/ \E n \in JourneyDays : JourneyAdvanceDate(n)
    \/ \E q \in FoodPurchases : JourneyAddFood(q)
    \/ \E p \in FoodPortions : JourneyUseFood(p)

\* a journey state together with the wagon's inventory
SpecJourney == InitJourney /\ [][JourneyNext]_vars

\* an empty inventory that stocks two kinds, in either build
InitQuantityWidth ==
    /\ stockable = {"Food", "Ammunition"}
    /\ items = Inventory_new
    /\ max_capacity = 20000
    /\ pre = Inventory(items, max_capacity)
    /\ last = Call("new", "none", 0, RetUnit)
    /\ overflow_checks \in BOOLEAN
    /\ fault = "none"
    /\ ncalls = 0
    /\ trace = << >>
    /\ effective = 0
    /\ game = Game_new
    /\ gpre = game
    /\ glast = GCall("new", NoInput, "None")
    /\ button = Button_new
    /\ bpre = button
    /\ blast = BCall("new", NoFrame, "None", 0, 0)
    /\ textures = AssetManager_new
    /\ loads = 0
    /\ apre = Cache(textures, loads)
    /\ alast = ACall("new", << >>, {}, ANone)
    /\ remaining_days = 0
    /\ ps = PlayerState_new
    /\ pspre = ps
    /\ pslast = PCall("new", 0, NoArg, RetUnit)
    /\ member = PartyMember_new("Amanda", 30, TRUE)
    /\ mpre = member
    /\ mlast = MCall("new", "none", RetUnit)
    /\ degradeRun = 0

QuantityWidthNext == \E k \in ItemType, q \in WideQuantities : AddItemU32(k, q)

\* add_item with quantities over the whole range of u32
SpecQuantityWidth == InitQuantityWidth /\ [][QuantityWidthNext]_vars

\* field values an external collaborator can write: day 0, a day past the
\* month's length, day 2^32 - 1, months outside 1..12, the last u16 year
WideDays == {0, 1, 28, 31, 32, 40, U32Max}

WideMonths == {0, 1, 2, 12, 13, 255}

WideYears == {0, 1848, 65535}

\* a journey state with any of these field values, in either build
InitDateWidth ==
    /\ \E d \in WideDays, m \in WideMonths, y \in WideYears :
          ps = [PlayerState_new EXCEPT !.day = d, !.month = m, !.year = y]
    /\ pspre = ps
    /\ pslast = PCall("new", 0, NoArg, RetUnit)
    /\ overflow_checks \in BOOLEAN
    /\ fault = "none"
    /\ ncalls = 0
    /\ trace = << >>
    /\ effective = 0
    /\ game = Game_new
    /\ gpre = game
    /\ glast = GCall("new", NoInput, "None")
    /\ button = Button_new
    /\ bpre = button
    /\ blast = BCall("new", NoFrame, "None", 0, 0)
    /\ textures = AssetManager_new
    /\ loads = 0
    /\ apre = Cache(textures, loads)
    /\ alast = ACall("new", << >>, {}, ANone)
    /\ remaining_days = 0
    /\ stockable = {}
    /\ items = Inventory_new
    /\ max_capacity = 0
    /\ pre = Inventory(items, max_capacity)
    /\ last = Call("new", "none", 0, RetUnit)
    /\ member = PartyMember_new("Amanda", 30, TRUE)
    /\ mpre = member
    /\ mlast = MCall("new", "none", RetUnit)
    /\ degradeRun = 0

\* advance_date over the whole range of its fields
SpecDateWidth == InitDateWidth /\ [][DateNext]_vars

\* a journey state at any valid date of the starting years, in either build
InitDateLoop ==
    /\ \E y \in StartYears, m \in 1..12 :
         \E d \in 1..days_in_month(m, y) :
            ps = [PlayerState_new EXCEPT !.day = d, !.month = m, !.year = y]
    /\ pspre = ps
    /\ pslast = PCall("new", 0, NoArg, RetUnit)
    /\ overflow_checks \in BOOLEAN
    /\ fault = "none"
    /\ ncalls = 0
    /\ trace = << >>
    /\ effective = 0
    /\ game = Game_new
    /\ gpre = game
    /\ glast = GCall("new", NoInput, "None")
    /\ button = Button_new
    /\ bpre = button
    /\ blast = BCall("new", NoFrame, "None", 0, 0)
    /\ textures = AssetManager_new
    /\ loads = 0
    /\ apre = Cache(textures, loads)
    /\ alast = ACall("new", << >>, {}, ANone)
    /\ remaining_days = 0
    /\ stockable = {}
    /\ items = Inventory_new
    /\ max_capacity = 0
    /\ pre = Inventory(items, max_capacity)
    /\ last = Call("new", "none", 0, RetUnit)
    /\ member = PartyMember_new("Amanda", 30, TRUE)
    /\ mpre = member
    /\ mlast = MCall("new", "none", RetUnit)
    /\ degradeRun = 0

DateLoopNext ==
    \/ \E n \in DayCounts : EnterAdvanceDate(n)
    \/ AdvanceDateIteration

\* one advance_date call, iteration by iteration
SpecDateLoop == InitDateLoop /\ [][DateLoopNext]_vars

\* the roster positions whose members fall ill between two setups
Veterans == {1, 2}

\* a new journey state that is set up repeatedly
InitSetup ==
    /\ ps = PlayerState_new
    /\ pspre = ps
    /\ pslast = PCall("new", 0, NoArg, RetUnit)
    /\ overflow_checks = FALSE
    /\ fault = "none"
    /\ ncalls = 0
    /\ trace = << >>
    /\ effective = 0
    /\ game = Game_new
    /\ gpre = game
    /\ glast = GCall("new", NoInput, "None")
    /\ button = Button_new
    /\ bpre = button
    /\ blast = BCall("new", NoFrame, "None", 0, 0)
    /\ textures = AssetManager_new
    /\ loads = 0
    /\ apre = Cache(textures, loads)
    /\ alast = ACall("new", << >>, {}, ANone)
    /\ remaining_days = 0
    /\ stockable = {}
    /\ items = Inventory_new
    /\ max_capacity = 0
    /\ pre = Inventory(items, max_capacity)
    /\ last = Call("new", "none", 0, RetUnit)
    /\ member = PartyMember_new("Amanda", 30, TRUE)
    /\ mpre = member
    /\ mlast = MCall("new", "none", RetUnit)
    /\ degradeRun = 0

SetupNext ==
    \/ \E a \in SetupCalls : JourneySetupParty(a)
    \/ \E i \in Veterans, d \in PartyDisease : PartyContractDisease(i, d)
    \/ \E i \in Veterans : PartyDegradeHealth(i)

\* setup_party called any number of times, on members in any health
SpecSetup == InitSetup /\ [][SetupNext]_vars

\* a new journey state, in either build
InitCalendar ==
    /\ ps = PlayerState_new
    /\ pspre = ps
    /\ pslast = PCall("new", 0, NoArg, RetUnit)
    /\ overflow_checks \in BOOLEAN
    /\ fault = "none"
    /\ ncalls = 0
    /\ trace = << >>
    /\ effective = 0
    /\ game = Game_new
    /\ gpre = game
    /\ glast = GCall("new", NoInput, "None")
    /\ button = Button_new
    /\ bpre = button
    /\ blast = BCall("new", NoFrame, "None", 0, 0)
    /\ textures = AssetManager_new
    /\ loads = 0
    /\ apre = Cache(textures, loads)
    /\ alast = ACall("new", << >>, {}, ANone)
    /\ remaining_days = 0
    /\ stockable = {}
    /\ items = Inventory_new
    /\ max_capacity = 0
    /\ pre = Inventory(items, max_capacity)
    /\ last = Call("new", "none", 0, RetUnit)
    /\ member = PartyMember_new("Amanda", 30, TRUE)
    /\ mpre = member
    /\ mlast = MCall("new", "none", RetUnit)
    /\ degradeRun = 0

CalendarNext ==
    \/ AdvanceDateFar
    \/ \E n \in CalendarDays : CalendarAdvanceDate(n)

\* the calendar under any sequence of advance_date calls from Mar 1 1848
SpecCalendar == InitCalendar /\ [][CalendarNext]_vars

\* an empty inventory for Ammunition, of a capacity given as an f32
InitGuarded ==
    /\ stockable = {"Ammunition"}
    /\ items = Inventory_new
    /\ max_capacity \in GuardedCapacities
    /\ pre = Inventory(items, max_capacity)
    /\ last = Call("new", "none", 0, RetUnit)
    /\ member = PartyMember_new("Amanda", 30, TRUE)
    /\ mpre = member
    /\ mlast = MCall("new", "none", RetUnit)
    /\ degradeRun = 0
    /\ ps = PlayerState_new
    /\ pspre = ps
    /\ pslast = PCall("new", 0, NoArg, RetUnit)
    /\ overflow_checks = FALSE
    /\ fault = "none"
    /\ ncalls = 0
    /\ trace = << >>
    /\ effective = 0
    /\ game = Game_new
    /\ gpre = game
    /\ glast = GCall("new", NoInput, "None")
    /\ button = Button_new
    /\ bpre = button
    /\ blast = BCall("new", NoFrame, "None", 0, 0)
    /\ textures = AssetManager_new
    /\ loads = 0
    /\ apre = Cache(textures, loads)
    /\ alast = ACall("new", << >>, {}, ANone)
    /\ remaining_days = 0

GuardedNext ==
    \/ \E q \in AmmunitionPurchases : GuardedAddAmmunition(q)
    \/ \E q \in Quantities : UseAmmunition(q)

\* adds made only after can_add has answered true, weights in f32
SpecGuarded == InitGuarded /\ [][GuardedNext]_vars

\* a fresh member that only contracts diseases and recovers from them
InitIllness ==
    /\ member \in NewMembers
    /\ mpre = member
    /\ mlast = MCall("new", "none", RetUnit)
    /\ degradeRun = 0
    /\ effective = 0
    /\ game = Game_new
    /\ gpre = game
    /\ glast = GCall("new", NoInput, "None")
    /\ button = Button_new
    /\ bpre = button
    /\ blast = BCall("new", NoFrame, "None", 0, 0)
    /\ textures = AssetManager_new
    /\ loads = 0
    /\ apre = Cache(textures, loads)
    /\ alast = ACall("new", << >>, {}, ANone)
    /\ stockable = {}
    /\ items = Inventory_new
    /\ max_capacity = 0
    /\ pre = Inventory(items, max_capacity)
    /\ last = Call("new", "none", 0, RetUnit)
    /\ ps = PlayerState_new
    /\ pspre = ps
    /\ pslast = PCall("new", 0, NoArg, RetUnit)
    /\ overflow_checks = FALSE
    /\ fault = "none"
    /\ ncalls = 0
    /\ trace = << >>
    /\ remaining_days = 0

IllnessNext ==
    \/ \E d \in Disease : IllnessContractDisease(d)
    \/ \E d \in Disease : RecoverFromDisease(d)

\* one party member under contract_disease and recover_from_disease only
SpecIllness == InitIllness /\ [][IllnessNext]_vars

RosterNext ==
    \/ \E a \in SetupCalls : RosterSetupParty(a)
    \/ \E i \in 1..MaxParty, d \in PartyDisease : PartyContractDisease(i, d)
    \/ \E i \in 1..MaxParty, d \in PartyDisease : PartyRecoverFromDisease(i, d)
    \/ \E i \in 1..MaxParty : PartyDegradeHealth(i)
    \/ \E i \in 1..MaxParty : PartyImproveHealth(i)
    \/ \E n \in RosterDays : RosterAdvanceDate(n)

\* the roster of a journey state while its members' health changes and the
\* calendar advances
SpecRoster == InitParty /\ [][RosterNext]_vars

\* a new game
InitGame ==
    /\ game = Game_new
    /\ gpre = game
    /\ glast = GCall("new", NoInput, "None")
    /\ button = Button_new
    /\ bpre = button
    /\ blast = BCall("new", NoFrame, "None", 0, 0)
    /\ textures = AssetManager_new
    /\ loads = 0
    /\ apre = Cache(textures, loads)
    /\ alast = ACall("new", << >>, {}, ANone)
    /\ ps = PlayerState_new
    /\ pspre = ps
    /\ pslast = PCall("new", 0, NoArg, RetUnit)
    /\ overflow_checks = FALSE
    /\ fault = "none"
    /\ ncalls = 0
    /\ trace = << >>
    /\ effective = 0
    /\ remaining_days = 0
    /\ stockable = {}
    /\ items = Inventory_new
    /\ max_capacity = 0
    /\ pre = Inventory(items, max_capacity)
    /\ last = Call("new", "none", 0, RetUnit)
    /\ member = PartyMember_new("Amanda", 30, TRUE)
    /\ mpre = member
    /\ mlast = MCall("new", "none", RetUnit)
    /\ degradeRun = 0

GameNext ==
    \/ LoadAssets
    \/ \E input \in Input : Update(input)

\* the game as main drives it: load_assets, then update frame after frame
SpecGame == InitGame /\ [][GameNext]_vars

LatchNext ==
    \/ GameLoadAssets
    \/ \E input \in Input : Update(input)
    \/ \E new_state \in GameState : TransitionTo(new_state)

\* the game under every public call that writes its fields
SpecLatch == InitGame /\ [][LatchNext]_vars

\* a new button
InitButton ==
    /\ button = Button_new
    /\ bpre = button
    /\ blast = BCall("new", NoFrame, "None", 0, 0)
    /\ textures = AssetManager_new
    /\ loads = 0
    /\ apre = Cache(textures, loads)
    /\ alast = ACall("new", << >>, {}, ANone)
    /\ game = Game_new
    /\ gpre = game
    /\ glast = GCall("new", NoInput, "None")
    /\ ps = PlayerState_new
    /\ pspre = ps
    /\ pslast = PCall("new", 0, NoArg, RetUnit)
    /\ overflow_checks = FALSE
    /\ fault = "none"
    /\ ncalls = 0
    /\ trace = << >>
    /\ effective = 0
    /\ remaining_days = 0
    /\ stockable = {}
    /\ items = Inventory_new
    /\ max_capacity = 0
    /\ pre = Inventory(items, max_capacity)
    /\ last = Call("new", "none", 0, RetUnit)
    /\ member = PartyMember_new("Amanda", 30, TRUE)
    /\ mpre = member
    /\ mlast = MCall("new", "none", RetUnit)
    /\ degradeRun = 0

ButtonNext == \E frame \in Frame : ButtonUpdate(frame)

\* one button, updated frame after frame
SpecButton == InitButton /\ [][ButtonNext]_vars

AssetNext ==
    \/ \E name \in TextureNames, files \in SUBSET TextureNames :
          LoadTexture(name, files)
    \/ \E names \in PreloadLists, files \in SUBSET TextureNames :
          PreloadTextures(names, files)
    \/ \E name \in TextureNames : GetTexture(name)

\* one asset manager; InitButton is the state after every constructor
SpecAssets == InitButton /\ [][AssetNext]_vars

----------------------------------------------------------------------------
(* Properties of the inventory, checked under SpecInventory *)

\* the catalog of unit weights (tenths of a pound) and unit costs (dollars)
CatalogWeight ==
    [k \in ItemType |->
        CASE k = "Food" -> 10 [] k = "Clothing" -> 20 [] k = "Ammunition" -> 1
          [] k = "OxenPair" -> 5000 [] k = "SpareWheel" -> 150
          [] k = "SpareAxle" -> 100 [] k = "SpareTongue" -> 80
          [] k = "MedicalSupply" -> 5]

CatalogCost ==
    [k \in ItemType |->
        CASE k = "Food" -> 2 [] k = "Clothing" -> 10 [] k = "Ammunition" -> 2
          [] k = "OxenPair" -> 40 [] k = "SpareWheel" -> 10
          [] k = "SpareAxle" -> 8 [] k = "SpareTongue" -> 6
          [] k = "MedicalSupply" -> 15]

QuantityOf(its, k) == IF k \in DOMAIN its THEN its[k].quantity ELSE 0

\* every kind other than k has the same record, or none, in both maps
OthersSame(a, b, k) ==
    \A j \in ItemType \ {k} :
        /\ j \in DOMAIN a <=> j \in DOMAIN b
        /\ j \in DOMAIN a => a[j] = b[j]

\* C1: remove(k, q) returns false and changes nothing exactly when q exceeds
\* quantity_of(k); in every other case, q = 0 and an unstocked kind included,
\* it returns true, the quantity of k drops by q and the record of k is
\* deleted when the result is 0.
C1_RemoveSucceedsUnlessShort ==
    last.op = "remove_item" =>
        LET k == last.kind
            q == last.qty
            held == QuantityOf(pre.items, k)
        IN  IF q > held
            THEN last.ret.ok = FALSE /\ items = pre.items
            ELSE /\ last.ret.ok = TRUE
                 /\ QuantityOf(items, k) = held - q
                 /\ (held - q = 0 => k \notin DOMAIN items)

\* C2: on an empty inventory, add(k, q) followed at once by remove(k, q)
\* returns true and leaves the inventory empty, for q = 0 as well.
C2_AddThenRemoveIsEmpty ==
    (/\ last.op = "remove_item"
     /\ pre.items = add_item(Inventory_new, last.kind, last.qty))
        => /\ last.ret.ok = TRUE
           /\ items = Inventory_new
           /\ get_all_items(items) = {}

C2_Witness ==
    /\ last.op = "remove_item"
    /\ last.qty = 0
    /\ DOMAIN pre.items = {last.kind}
    /\ pre.items[last.kind].quantity = 0
    /\ items = Inventory_new

\* C3: add(k, q) takes effect whatever the capacity: a stocked kind gains q
\* and keeps its unit weight and unit cost, an unstocked kind gets a record
\* with quantity q and the catalog defaults, and no other record changes.
C3_AddAlwaysTakesEffect ==
    last.op = "add_item" =>
        LET k == last.kind
            q == last.qty
        IN  /\ k \in DOMAIN items
            /\ items[k] =
                   IF k \in DOMAIN pre.items
                   THEN [item_type |-> pre.items[k].item_type,
                         quantity |-> pre.items[k].quantity + q,
                         weight_per_unit |-> pre.items[k].weight_per_unit,
                         cost_per_unit |-> pre.items[k].cost_per_unit]
                   ELSE [item_type |-> k, quantity |-> q,
                         weight_per_unit |-> CatalogWeight[k],
                         cost_per_unit |-> CatalogCost[k]]
            /\ OthersSame(pre.items, items, k)

C3_Witness ==
    /\ last.op = "add_item"
    /\ last.qty > 0
    /\ last.kind \in DOMAIN pre.items
    /\ DOMAIN pre.items # {last.kind}
    /\ total_weight(pre.items) > max_capacity
    /\ max_capacity > 0

\* C4 as stated: in every state reached by add and remove operations the
\* sum of the total weights of the stocked items does not exceed the capacity.
C4_WeightNeverExceedsCapacity ==
    total_weight(items) <= max_capacity

Removals == {"remove_item", "use_food", "use_ammunition", "use_medical_supply"}

\* C4 amended: the sum of the total weights exceeds the capacity only where an
\* add has taken it there (add never checks the capacity); a removal never
\* raises the sum, so it never takes the inventory above its capacity.
C4_OnlyAddExceedsCapacity ==
    /\ total_weight(items) > max_capacity
          => \/ total_weight(pre.items) > pre.max_capacity
             \/ last.op = "add_item"
    /\ last.op \in Removals => total_weight(items) <= total_weight(pre.items)

C4_Witness ==
    /\ last.op = "add_item"
    /\ max_capacity > 0
    /\ total_weight(pre.items) <= max_capacity
    /\ total_weight(pre.items) > 0
    /\ total_weight(items) > max_capacity

\* the unit weight can_add is to use: the stocked record's, else the catalog's
UnitWeightFor(its, k) ==
    IF k \in DOMAIN its THEN its[k].weight_per_unit ELSE CatalogWeight[k]

\* C5: can_add(k, q) is true exactly when the total weight plus q times the
\* unit weight of k (stocked record's, else catalog default) is at most the
\* capacity; reaching the capacity exactly is allowed.
C5_CanAddIffFits ==
    last.op = "can_add" =>
        (last.ret.ok = TRUE <=>
            total_weight(pre.items) + last.qty * UnitWeightFor(pre.items, last.kind)
                <= pre.max_capacity)

C5_Witness ==
    /\ last.op = "can_add"
    /\ last.ret.ok = TRUE
    /\ last.qty > 0
    /\ last.kind \in DOMAIN pre.items
    /\ total_weight(pre.items) + last.qty * UnitWeightFor(pre.items, last.kind)
          = pre.max_capacity

Observers ==
    {"can_add", "get_quantity", "total_weight", "capacity_info", "get_all_items"}

\* C6: can_add, quantity_of, total_weight, capacity_info and list_all leave
\* the stocked records and the capacity as they were and create no record;
\* quantity_of an unstocked kind is 0.
C6_ObserversArePure ==
    /\ last.op \in Observers
          => /\ items = pre.items
             /\ DOMAIN items = DOMAIN pre.items
             /\ max_capacity = pre.max_capacity
    /\ (last.op = "get_quantity" /\ last.kind \notin DOMAIN pre.items)
          => last.ret.num = 0

C6_Witness ==
    /\ last.op = "get_quantity"
    /\ last.kind \notin DOMAIN pre.items
    /\ pre.items # Inventory_new
    /\ last.ret.num = 0

\* quantity times unit weight of the record of k, 0 when k has no record
WeightOfKind(its, k) ==
    IF k \in DOMAIN its THEN its[k].quantity * its[k].weight_per_unit ELSE 0

SumOverKinds(its) ==
    WeightOfKind(its, "Food") + WeightOfKind(its, "Clothing")
    + WeightOfKind(its, "Ammunition") + WeightOfKind(its, "OxenPair")
    + WeightOfKind(its, "SpareWheel") + WeightOfKind(its, "SpareAxle")
    + WeightOfKind(its, "SpareTongue") + WeightOfKind(its, "MedicalSupply")

\* C7: total_weight() is the sum over the stocked records of quantity times
\* unit weight (0 when nothing is stocked), and for a capacity above 0
\* capacity_info() is (that weight, the capacity given at construction,
\* 100 * weight / capacity).
C7_TotalWeightAndCapacityInfo ==
    /\ total_weight(items) = SumOverKinds(items)
    /\ items = Inventory_new => total_weight(items) = 0
    /\ last.op = "total_weight" => last.ret.num = SumOverKinds(pre.items)
    /\ (last.op = "capacity_info" /\ pre.max_capacity > 0)
          => /\ last.ret.info[1] = SumOverKinds(pre.items)
             /\ last.ret.info[2] = pre.max_capacity
             /\ last.ret.info[3].class = "finite"
             /\ last.ret.info[3].num * pre.max_capacity
                   = 100 * SumOverKinds(pre.items) * last.ret.info[3].den

C7_Witness ==
    /\ last.op = "capacity_info"
    /\ pre.max_capacity > 0
    /\ Cardinality(DOMAIN pre.items) >= 2
    /\ last.ret.info[1] > pre.max_capacity

\* the least whole number of pounds not below p tenths of a pound
CeilPounds(p) == CHOOSE n \in 0 .. p : 10 * n >= p /\ 10 * (n - 1) < p

\* C8: use_food(p), p >= 0, has the result and effect of remove(Food, ceil(p));
\* use_ammunition(q) those of remove(Ammunition, q); use_medical_supply()
\* those of remove(MedicalSupply, 1); none changes another kind.
C8_WrappersAreRemove ==
    /\ (last.op = "use_food" /\ last.qty >= 0)
          => /\ items = remove_item(pre.items, "Food", CeilPounds(last.qty)).items
             /\ last.ret.ok = remove_item(pre.items, "Food", CeilPounds(last.qty)).ret
             /\ OthersSame(pre.items, items, "Food")
    /\ last.op = "use_ammunition"
          => /\ items = remove_item(pre.items, "Ammunition", last.qty).items
             /\ last.ret.ok = remove_item(pre.items, "Ammunition", last.qty).ret
             /\ OthersSame(pre.items, items, "Ammunition")
    /\ last.op = "use_medical_supply"
          => /\ items = remove_item(pre.items, "MedicalSupply", 1).items
             /\ last.ret.ok = remove_item(pre.items, "MedicalSupply", 1).ret
             /\ OthersSame(pre.items, items, "MedicalSupply")

C8_Witness ==
    /\ last.op = "use_food"
    /\ last.qty = 15
    /\ last.ret.ok = TRUE
    /\ QuantityOf(pre.items, "Food") = 2
    /\ "Food" \notin DOMAIN items
    /\ "Ammunition" \in DOMAIN items

----------------------------------------------------------------------------
(* Properties of a party member, checked under SpecMember *)

\* the health ladder, best first
Ladder == <<"Good", "Fair", "Poor", "VeryPoor", "Deceased">>

Rank(h) == CHOOSE i \in 1 .. Len(Ladder) : Ladder[i] = h

Lower(a, b) == IF a < b THEN a ELSE b

\* every field but health is as it was before the call
OnlyHealthChanged ==
    /\ member.name = mpre.name
    /\ member.diseases = mpre.diseases
    /\ member.is_leader = mpre.is_leader
    /\ member.age = mpre.age

\* C9: degrade() moves the member one step down the ladder and changes
\* nothing at Deceased; from Good the n-th degrade() in a row leaves the
\* member n steps down, Deceased from the fourth on and not before; the
\* diseases and every other field are untouched.
C9_DegradeOneStepDown ==
    /\ mlast.op = "degrade_health"
          => /\ Rank(member.health) = Lower(Rank(mpre.health) + 1, Len(Ladder))
             /\ OnlyHealthChanged
    /\ degradeRun >= 0
          => Rank(member.health) = Lower(degradeRun + 1, Len(Ladder))

C9_Witness ==
    /\ mlast.op = "degrade_health"
    /\ degradeRun = 5
    /\ mpre.health = "Deceased"
    /\ member.health = "Deceased"

\* C10: improve() moves the member one step up the ladder and changes
\* nothing at Good and at Deceased; the diseases and every other field are
\* untouched.
C10_ImproveOneStepUp ==
    mlast.op = "improve_health"
        => /\ member.health =
                  IF mpre.health \in {"Good", "Deceased"}
                  THEN mpre.health
                  ELSE Ladder[Rank(mpre.health) - 1]
           /\ OnlyHealthChanged

C10_Witness ==
    /\ mlast.op = "improve_health"
    /\ mpre.health = "Deceased"
    /\ member.health = "Deceased"
    /\ Len(member.diseases) > 0

\* C11: once a member is Deceased, contract, recover, degrade and improve
\* all leave the member Deceased, and is_alive() (health differs from
\* Deceased) answers false from then on.
C11_DeceasedIsAbsorbing ==
    /\ mpre.health = "Deceased" => member.health = "Deceased"
    /\ mlast.op = "is_alive"
          => /\ mlast.ret.ok = (mpre.health # "Deceased")
             /\ mpre.health = "Deceased" => mlast.ret.ok = FALSE

C11_Witness ==
    /\ mlast.op = "improve_health"
    /\ mpre.health = "Deceased"
    /\ member.health = "Deceased"
    /\ member.diseases = << >>

\* C12: contract(d) with d not active appends d to the active diseases and
\* lowers the health by one ladder step; with d already active it changes
\* nothing.  Contracting d twice on a new member leaves one entry and Fair.
C12_ContractOnceDegradesOnce ==
    mlast.op = "contract_disease" =>
        LET d == mlast.arg
        IN  /\ ~Contains(mpre.diseases, d)
                  => /\ member.diseases = mpre.diseases \o <<d>>
                     /\ Rank(member.health)
                           = Lower(Rank(mpre.health) + 1, Len(Ladder))
            /\ Contains(mpre.diseases, d) => member = mpre
            /\ (mpre.diseases = <<d>> /\ mpre.health = "Fair")
                  => (member.diseases = <<d>> /\ member.health = "Fair")
            /\ member.name = mpre.name
            /\ member.is_leader = mpre.is_leader
            /\ member.age = mpre.age

C12_Witness ==
    /\ mlast.op = "contract_disease"
    /\ mpre.diseases = <<mlast.arg>>
    /\ mpre.health = "Fair"
    /\ member.diseases = <<mlast.arg>>
    /\ member.health = "Fair"

\* the sequence s with every entry equal to d left out
RECURSIVE Without(_, _)
Without(s, d) ==
    IF s = << >> THEN << >>
    ELSE IF Head(s) = d THEN Without(Tail(s), d)
         ELSE <<Head(s)>> \o Without(Tail(s), d)

\* C13: recover(d) takes d out of the active diseases if it is there and
\* otherwise changes nothing; the health stays as it was and every other
\* active disease stays active.
C13_RecoverOnlyRemovesDisease ==
    mlast.op = "recover_from_disease" =>
        LET d == mlast.arg
        IN  /\ member.diseases = Without(mpre.diseases, d)
            /\ ~Contains(member.diseases, d)
            /\ \A e \in Disease \ {d} :
                   Contains(member.diseases, e) <=> Contains(mpre.diseases, e)
            /\ ~Contains(mpre.diseases, d) => member = mpre
            /\ member.health = mpre.health
            /\ member.name = mpre.name
            /\ member.is_leader = mpre.is_leader
            /\ member.age = mpre.age

C13_Witness ==
    /\ mlast.op = "recover_from_disease"
    /\ Contains(mpre.diseases, mlast.arg)
    /\ Len(mpre.diseases) >= 2
    /\ Len(member.diseases) = Len(mpre.diseases) - 1
    /\ member.health = "Poor"

----------------------------------------------------------------------------
(* Properties of the roster, checked under SpecParty *)

\* the journey-state fields other than the roster
SameButParty(a, b) ==
    /\ a.money = b.money
    /\ a.pace = b.pace
    /\ a.rations = b.rations
    /\ a.miles_traveled = b.miles_traveled
    /\ a.location = b.location
    /\ a.day = b.day
    /\ a.month = b.month
    /\ a.year = b.year

\* a record as the claim describes a freshly set up member
FreshMember(name, age, leader) ==
    [name |-> name, health |-> "Good", diseases |-> << >>,
     is_leader |-> leader, age |-> age]

\* C14: on a new journey state, setup(leader, companions) produces a roster of
\* length 1 + |companions|: first the leader (age 30, leader flag set), then
\* one member per companion name in the given order (age 25, flag clear), all
\* in Good health without diseases; exactly one member carries the leader
\* flag; an empty companion list yields a one-person party.
C14_SetupBuildsRoster ==
    (pslast.op = "setup_party" /\ pspre.party = << >>)
        => LET leader == pslast.arg.name
               companions == pslast.arg.names
           IN  /\ Len(ps.party) = 1 + Len(companions)
               /\ ps.party[1] = FreshMember(leader, 30, TRUE)
               /\ \A i \in 1..Len(companions) :
                     ps.party[i + 1] = FreshMember(companions[i], 25, FALSE)
               /\ Cardinality({i \in 1..Len(ps.party) : ps.party[i].is_leader}) = 1
               /\ companions = << >> => Len(ps.party) = 1
               /\ SameButParty(ps, pspre)

\* setup("Amanda", ["Bob", "Cid"]) has just run on a new journey state
C14_Witness ==
    /\ pslast.op = "setup_party"
    /\ pspre.party = << >>
    /\ pslast.arg.name = "Amanda"
    /\ pslast.arg.names = <<"Bob", "Cid">>
    /\ Len(ps.party) = 3

\* the number of members of a roster whose health is not Deceased
RECURSIVE NotDeceased(_)
NotDeceased(party) ==
    IF party = << >> THEN 0
    ELSE (IF Head(party).health # "Deceased" THEN 1 ELSE 0) + NotDeceased(Tail(party))

\* C15: livingCount() is the number of roster members whose health is not
\* Deceased; while no member is Deceased it is the size of the roster; a
\* member reaching Deceased lowers it by one and the roster keeps the record.
C15_LivingCountsNotDeceased ==
    /\ living_party_members(ps) = NotDeceased(ps.party)
    /\ pslast.op = "living_party_members"
          => /\ pslast.ret.num = NotDeceased(pspre.party)
             /\ ps = pspre
    /\ (\A i \in 1..Len(ps.party) : ps.party[i].health # "Deceased")
          => living_party_members(ps) = Len(ps.party)
    /\ (/\ pslast.who \in 1..Len(pspre.party)
        /\ pspre.party[pslast.who].health # "Deceased"
        /\ ps.party[pslast.who].health = "Deceased")
          => /\ living_party_members(ps) = living_party_members(pspre) - 1
             /\ Len(ps.party) = Len(pspre.party)
             /\ ps.party[pslast.who].name = pspre.party[pslast.who].name

\* a member of a three-person party has just reached Deceased
C15_Witness ==
    /\ Len(ps.party) = 3
    /\ pslast.who \in 1..3
    /\ pspre.party[pslast.who].health # "Deceased"
    /\ ps.party[pslast.who].health = "Deceased"
    /\ living_party_members(pspre) = 3
    /\ living_party_members(ps) = 2

----------------------------------------------------------------------------
(* Properties of the calendar, checked under SpecDate *)

\* the month-length table of the calendar, February by the divisible-by-4 rule
MonthLength(m, y) ==
    IF m = 2 THEN (IF y % 4 = 0 THEN 29 ELSE 28)
    ELSE <<31, 0, 31, 30, 31, 30, 31, 31, 30, 31, 30, 31>>[m]

Date(d, m, y) == <<d, m, y>>

DateOf(state) == Date(state.day, state.month, state.year)

ValidDate(dt) ==
    /\ dt[2] \in 1..12
    /\ dt[1] \in 1..MonthLength(dt[2], dt[3])

\* the calendar day after a date
NextDay(dt) ==
    IF dt[1] < MonthLength(dt[2], dt[3]) THEN Date(dt[1] + 1, dt[2], dt[3])
    ELSE IF dt[2] < 12 THEN Date(1, dt[2] + 1, dt[3])
    ELSE Date(1, 1, dt[3] + 1)

\* the fields of a journey state other than the date
SameButDate(a, b) ==
    /\ a.party = b.party
    /\ a.money = b.money
    /\ a.pace = b.pace
    /\ a.rations = b.rations
    /\ a.miles_traveled = b.miles_traveled
    /\ a.location = b.location

\* C16: from any valid date, advanceDate(1) yields the next calendar day
\* under the month table with February of 29 days exactly when the year is
\* divisible by 4, century years included: Feb 28 1848 -> Feb 29 1848 ->
\* Mar 1 1848, Feb 28 1849 -> Mar 1 1849, Dec 31 1848 -> Jan 1 1849.
C16_OneDayIsNextCalendarDay ==
    (pslast.op = "advance_date" /\ pslast.arg.days = 1 /\ ValidDate(DateOf(pspre)))
        => LET from == DateOf(pspre)
               to == DateOf(ps)
           IN  /\ to = NextDay(from)
               /\ ValidDate(to)
               /\ fault = "none"
               /\ from = Date(28, 2, 1848) => to = Date(29, 2, 1848)
               /\ from = Date(29, 2, 1848) => to = Date(1, 3, 1848)
               /\ from = Date(28, 2, 1849) => to = Date(1, 3, 1849)
               /\ from = Date(31, 12, 1848) => to = Date(1, 1, 1849)
               /\ from = Date(28, 2, 1900) => to = Date(29, 2, 1900)

\* one day has been advanced from Feb 28 of the century year 1900
C16_Witness ==
    /\ pslast.op = "advance_date"
    /\ pslast.arg.days = 1
    /\ DateOf(pspre) = Date(28, 2, 1900)
    /\ DateOf(ps) = Date(29, 2, 1900)

\* the date n calendar days after a date: the first half of the steps, then
\* the second half from the date they reach
RECURSIVE DaysAfter(_, _)
DaysAfter(dt, n) ==
    IF n = 0 THEN dt
    ELSE IF n = 1 THEN NextDay(dt)
    ELSE CHOOSE r \in {DaysAfter(mid, n - (n \div 2)) :
                           mid \in {DaysAfter(dt, n \div 2)}} : TRUE

\* the state after n successive advanceDate(1) calls
RECURSIVE OneByOne(_, _, _)
OneByOne(state, n, checks) ==
    IF n = 0 THEN state
    ELSE IF n = 1 THEN advance_date(state, 1, checks).state
    ELSE CHOOSE r \in {OneByOne(mid, n - (n \div 2), checks) :
                           mid \in {OneByOne(state, n \div 2, checks)}} : TRUE

\* the numbers of days two successive calls are compared with one call on
SplitCounts == {0, 1, 31, 59}

\* C17: from every valid date, one advanceDate(n) leaves the same day, month
\* and year as n successive advanceDate(1) calls, also across months and
\* years: advanceDate(0) changes nothing, advanceDate(a) then advanceDate(b)
\* equals advanceDate(a + b), and 400 days from Mar 1 1848 is Apr 5 1849.
C17_AdvanceIsRepeatedOneDay ==
    /\ (pslast.op = "advance_date" /\ ValidDate(DateOf(pspre)))
          => LET n == pslast.arg.days
             IN  /\ ps = OneByOne(pspre, n, overflow_checks)
                 /\ DateOf(ps) = DaysAfter(DateOf(pspre), n)
                 /\ SameButDate(ps, pspre)
                 /\ fault = "none"
                 /\ n = 0 => ps = pspre
                 /\ (n = 400 /\ DateOf(pspre) = Date(1, 3, 1848))
                       => DateOf(ps) = Date(5, 4, 1849)
    /\ ValidDate(DateOf(ps))
          => \A a \in SplitCounts, b \in SplitCounts :
                advance_date(advance_date(ps, a, overflow_checks).state, b,
                             overflow_checks).state
                   = advance_date(ps, a + b, overflow_checks).state

\* 400 days have been advanced in one call from Mar 1 1848
C17_Witness ==
    /\ pslast.op = "advance_date"
    /\ pslast.arg.days = 400
    /\ DateOf(pspre) = Date(1, 3, 1848)
    /\ DateOf(ps) = Date(5, 4, 1849)

----------------------------------------------------------------------------
(* Properties of a journey, checked under SpecJourney *)

\* the end-to-end sequence: setup with 4 names, add(Food, 200), consume 100
\* pounds of food, advanceDate(10)
Scenario ==
    <<Step("setup_party", 4), Step("add_item", 200), Step("use_food", 1000),
      Step("advance_date", 10)>>

\* the calls made so far are the first k of the sequence
Played(k) == trace = SubSeq(Scenario, 1, k)

InventoryOps == {"add_item", "use_food"}

\* C18: from a new journey state (Mar 1 1848) and an empty inventory, after
\* setup with 4 names and add(Food, 200), consuming 100 pounds of food
\* succeeds and leaves quantity_of(Food) = 100, and advanceDate(10) then
\* leaves the date Mar 11 1848; inventory operations leave the roster and the
\* date unchanged; advanceDate leaves the roster, money, pace, rations, miles
\* and location unchanged.
C18_EndToEnd ==
    /\ Played(0) => (DateOf(ps) = Date(1, 3, 1848) /\ items = << >>)
    /\ Played(1) => (Len(ps.party) = 4 /\ DateOf(ps) = Date(1, 3, 1848))
    /\ Played(2) => QuantityOf(items, "Food") = 200
    /\ Played(3) => (last.ret.ok /\ QuantityOf(items, "Food") = 100)
    /\ Played(4) => /\ DateOf(ps) = Date(11, 3, 1848)
                    /\ QuantityOf(items, "Food") = 100
                    /\ Len(ps.party) = 4
    /\ (trace # << >> /\ trace[Len(trace)].op \in InventoryOps)
          => (ps.party = pspre.party /\ DateOf(ps) = DateOf(pspre) /\ ps = pspre)
    /\ (trace # << >> /\ trace[Len(trace)].op = "advance_date")
          => (SameButDate(ps, pspre) /\ items = pre.items)

\* the whole sequence has been played
C18_Witness ==
    /\ Played(4)
    /\ DateOf(ps) = Date(11, 3, 1848)
    /\ QuantityOf(items, "Food") = 100

----------------------------------------------------------------------------
(* Properties of the integer widths, checked under SpecQuantityWidth and *)
(* SpecDateWidth *)

\* C19: add(k, q) never fails or panics for any 32-bit unsigned q: also when
\* the held quantity plus q exceeds 2^32 - 1 the call completes without
\* arithmetic overflow and quantity_of(k) afterwards is the held quantity
\* plus q, not a wrapped value (so it is not below the held quantity).
C19_AddNeverOverflows ==
    last.op = "add_item"
        => /\ fault = "none"
           /\ ~u32_lt(QuantityOf(items, last.kind), QuantityOf(pre.items, last.kind))

\* C20: advanceDate(days) completes without arithmetic underflow or overflow
\* for every value of the day, month and year fields, including a day past
\* the month's length, day 0, a month outside 1..12 and an advance that
\* carries the year past 65535.
C20_AdvanceNeverOverflows ==
    pslast.op = "advance_date" => fault = "none"

----------------------------------------------------------------------------
(* Properties of the advance_date loop, checked under SpecDateLoop *)

\* the month after month m of year y, as <<month, year>>
MonthAfter(m, y) == IF m < 12 THEN <<m + 1, y>> ELSE <<1, y + 1>>

\* C21: advanceDate(days) terminates from every valid date: each iteration
\* of its loop consumes at least one day and at most one month's worth of
\* the remaining days, the remaining-days counter strictly decreases and
\* reaches exactly 0, and an iteration crosses at most one month boundary.
C21_LoopConsumesAndTerminates ==
    /\ remaining_days >= 0
    /\ pslast.op = "iteration"
          => LET before == pslast.arg.days
                 consumed == before - remaining_days
             IN  /\ consumed >= 1
                 /\ consumed <= MonthLength(pspre.month, pspre.year)
                 /\ consumed <= before
                 /\ remaining_days < before
                 /\ \/ <<ps.month, ps.year>> = <<pspre.month, pspre.year>>
                    \/ /\ <<ps.month, ps.year>> = MonthAfter(pspre.month, pspre.year)
                       /\ ps.day = 1
                 /\ DateOf(ps) = DaysAfter(DateOf(pspre), consumed)
                 /\ fault = "none"
    /\ ValidDate(DateOf(ps))
    /\ advance_loop(Loop(ps.day, ps.month, ps.year, remaining_days, fault),
                    overflow_checks).remaining_days = 0

\* the last iteration of a call has consumed the 4 days left and stopped on
\* Apr 5 1849, after an iteration that crossed from March into April
C21_Witness ==
    /\ pslast.op = "iteration"
    /\ pslast.arg.days = 4
    /\ remaining_days = 0
    /\ DateOf(pspre) = Date(1, 4, 1849)
    /\ DateOf(ps) = Date(5, 4, 1849)

----------------------------------------------------------------------------
(* Properties of repeated setup, checked under SpecSetup *)

\* the number of leader-flagged members of a roster
RECURSIVE Leaders(_)
Leaders(party) ==
    IF party = << >> THEN 0
    ELSE (IF Head(party).is_leader THEN 1 ELSE 0) + Leaders(Tail(party))

\* the sum of the names given to the setup calls of a trace
RECURSIVE NamesGiven(_)
NamesGiven(t) == IF t = << >> THEN 0 ELSE Head(t).n + NamesGiven(Tail(t))

\* C22: setup never replaces or clears the roster: a further call appends a
\* leader record and its companions after the existing members, whose
\* records (health and diseases included) are untouched; after k calls the
\* roster holds k leader-flagged members and the sum of (1 + companions)
\* records.
C22_SetupAppends ==
    /\ pslast.op = "setup_party"
          => LET old == Len(pspre.party)
                 companions == pslast.arg.names
             IN  /\ Len(ps.party) = old + 1 + Len(companions)
                 /\ SubSeq(ps.party, 1, old) = pspre.party
                 /\ ps.party[old + 1] = FreshMember(pslast.arg.name, 30, TRUE)
                 /\ \A i \in 1..Len(companions) :
                       ps.party[old + 1 + i] = FreshMember(companions[i], 25, FALSE)
    /\ Leaders(ps.party) = Len(trace)
    /\ Len(ps.party) = NamesGiven(trace)

\* a second setup has just run on a roster whose first member had fallen ill
C22_Witness ==
    /\ pslast.op = "setup_party"
    /\ Len(trace) = 2
    /\ pspre.party # << >>
    /\ pspre.party[1].health = "Poor"
    /\ pspre.party[1].diseases # << >>
    /\ ps.party[1] = pspre.party[1]
    /\ Leaders(ps.party) = 2

----------------------------------------------------------------------------
(* Further properties of the inventory, checked under SpecInventory *)

\* the kinds list_all returns a record of
Listed(its) == {r.item_type : r \in get_all_items(its)}

\* C23: after any sequence of add, remove and consumption calls (quantity 0
\* included) no stocked record has quantity 0: a kind is listed by list_all
\* if and only if quantity_of(kind) > 0.
C23_NoZeroRecords ==
    /\ \A k \in DOMAIN items : items[k].quantity > 0
    /\ \A k \in ItemType : k \in Listed(items) <=> get_quantity(items, k) > 0

\* where the zero records come from: a successful remove or consumption never
\* leaves a record of quantity 0, and every kind held in a positive quantity
\* is listed; a listed record has quantity 0 only where add(k, 0) created it
\* for an unstocked kind, or where it was such a record already.
ZeroRecordsOnlyFromAddZero ==
    /\ (last.op \in Removals /\ last.ret.ok)
          => (last.kind \notin DOMAIN items \/ items[last.kind].quantity > 0)
    /\ \A k \in ItemType :
          /\ get_quantity(items, k) > 0 => k \in Listed(items)
          /\ k \in Listed(items) <=> k \in DOMAIN items
          /\ (k \in DOMAIN items /\ items[k].quantity = 0)
                => \/ /\ last.op = "add_item"
                      /\ last.kind = k
                      /\ last.qty = 0
                      /\ k \notin DOMAIN pre.items
                   \/ /\ k \in DOMAIN pre.items
                      /\ pre.items[k].quantity = 0

\* add(k, 0) has just created a listed record of quantity 0
AddZeroListsZeroRecord ==
    /\ last.op = "add_item"
    /\ last.qty = 0
    /\ last.kind \notin DOMAIN pre.items
    /\ last.kind \in Listed(items)
    /\ get_quantity(items, last.kind) = 0

\* C24: each kind has at most one record, the record stored under kind k has
\* item kind k, and its unit weight and unit cost are the catalog defaults of
\* k and never change, also across removal to zero and re-adding; can_add's
\* default unit-weight table agrees with add's for all eight kinds, so
\* can_add(k, q) answers the same whether k is stocked or not at equal total
\* weight.
C24_RecordsKeepCatalogDefaults ==
    /\ Cardinality(get_all_items(items)) = Cardinality(DOMAIN items)
    /\ \A k \in DOMAIN items :
          /\ items[k].item_type = k
          /\ items[k].weight_per_unit = CatalogWeight[k]
          /\ items[k].cost_per_unit = CatalogCost[k]
          /\ k \in DOMAIN pre.items
                => /\ items[k].weight_per_unit = pre.items[k].weight_per_unit
                   /\ items[k].cost_per_unit = pre.items[k].cost_per_unit
    /\ \A k \in ItemType :
          /\ default_weight(k) = default_item(k, 0).weight_per_unit
          /\ default_weight(k) = CatalogWeight[k]
          /\ default_item(k, 0).cost_per_unit = CatalogCost[k]
          /\ \A q \in Quantities :
                can_add(items, max_capacity, k, q)
                   <=> total_weight(items) + q * CatalogWeight[k] <= max_capacity

\* a kind has just been stocked (again or for the first time) next to
\* another stocked kind, with the catalog's unit weight and cost
C24_Witness ==
    /\ last.op = "add_item"
    /\ last.kind \notin DOMAIN pre.items
    /\ pre.items # << >>
    /\ last.kind \in DOMAIN items
    /\ items[last.kind].weight_per_unit = CatalogWeight[last.kind]
    /\ items[last.kind].quantity > 0

----------------------------------------------------------------------------
(* Further properties of a party member, checked under SpecMember *)

\* no element of a sequence occurs at two positions
NoDuplicates(s) == \A i \in 1..Len(s), j \in 1..Len(s) : s[i] = s[j] => i = j

\* C25: for a member created by the constructor, after any sequence of
\* contract and recover calls the active diseases contain no disease twice,
\* and after recover(d) the disease d is not active at all.
C25_DiseasesAreASet ==
    /\ NoDuplicates(member.diseases)
    /\ mlast.op = "recover_from_disease"
          => \A i \in 1..Len(member.diseases) : member.diseases[i] # mlast.arg
    /\ (mlast.op = "contract_disease" /\ Contains(mpre.diseases, mlast.arg))
          => member.diseases = mpre.diseases

\* a disease that was active among others has been contracted once more
C25_Witness ==
    /\ mlast.op = "contract_disease"
    /\ Contains(mpre.diseases, mlast.arg)
    /\ Len(mpre.diseases) >= 2
    /\ member.diseases = mpre.diseases

----------------------------------------------------------------------------
(* Properties of the calendar from the default date, checked under *)
(* SpecCalendar *)

\* date a is before date b (year, then month, then day)
Before(a, b) ==
    \/ a[3] < b[3]
    \/ a[3] = b[3] /\ a[2] < b[2]
    \/ a[3] = b[3] /\ a[2] = b[2] /\ a[1] < b[1]

\* C26: from the default date Mar 1 1848, after any sequence of advanceDate
\* calls with any arguments the date is valid (1 <= month <= 12, 1 <= day <=
\* length of the month, February 29 only when the year is divisible by 4)
\* and never moves backwards: it is unchanged by 0 days and strictly later
\* after days > 0.
C26_DateValidAndNeverBackwards ==
    /\ ValidDate(DateOf(ps))
    /\ pslast.op = "advance_date"
          => /\ ~Before(DateOf(ps), DateOf(pspre))
             /\ pslast.arg.days > 0 => Before(DateOf(pspre), DateOf(ps))
             /\ pslast.arg.days = 0 => DateOf(ps) = DateOf(pspre)

----------------------------------------------------------------------------
(* Properties of guarded adds, checked under SpecGuarded *)

\* C27: if every add(k, q) is made only when can_add(k, q) returned true in
\* the same state, the total weight never exceeds the max capacity in any
\* reachable state (remove and the consumption wrappers only lower it).
C27_GuardedAddsStayWithinCapacity ==
    total_weight_f32(items) <= max_capacity

----------------------------------------------------------------------------
(* Properties of illness, checked under SpecIllness *)

\* C28: under contract and recover calls alone on a fresh member, health
\* never improves and the number of ladder steps below Good is min(4, number
\* of contract calls that found their disease inactive): contract(d),
\* recover(d), contract(d) degrades twice, four effective contractions kill
\* the member, and a Deceased member still gains and loses diseases while
\* staying Deceased.
C28_HealthFollowsEffectiveContractions ==
    /\ Rank(member.health) - 1 = Lower(4, effective)
    /\ Rank(member.health) >= Rank(mpre.health)
    /\ effective >= 4 <=> member.health = "Deceased"
    /\ mpre.health = "Deceased"
          => /\ member.health = "Deceased"
             /\ (mlast.op = "contract_disease" /\ ~Contains(mpre.diseases, mlast.arg))
                   => member.diseases = mpre.diseases \o <<mlast.arg>>
             /\ mlast.op = "recover_from_disease"
                   => ~Contains(member.diseases, mlast.arg)
    /\ (mlast.op = "contract_disease" /\ mpre.diseases = << >> /\ effective = 2)
          => member.health = "Poor"

\* a disease contracted, recovered from and contracted again has degraded
\* the member twice
C28_Witness ==
    /\ mlast.op = "contract_disease"
    /\ mpre.diseases = << >>
    /\ mpre.health = "Fair"
    /\ effective = 2
    /\ member.health = "Poor"
    /\ member.diseases = <<mlast.arg>>

----------------------------------------------------------------------------
(* Properties of the roster over a journey, checked under SpecRoster *)

\* the calls that act on a roster that has been set up
RosterCalls == {"contract_disease", "recover_from_disease", "degrade_health",
                "improve_health", "advance_date"}

\* C29: after setup, no contract, recover, degrade or improve call on a
\* roster member and no advance_date call changes the roster's length (a
\* deceased member stays in it), the order, names, ages or leader flags of
\* its members, and none of them increases the number of living members.
C29_RosterIsPermanent ==
    pslast.op \in RosterCalls
       => /\ Len(ps.party) = Len(pspre.party)
          /\ \A i \in 1..Len(pspre.party) :
                /\ ps.party[i].name = pspre.party[i].name
                /\ ps.party[i].age = pspre.party[i].age
                /\ ps.party[i].is_leader = pspre.party[i].is_leader
          /\ living_party_members(ps) <= living_party_members(pspre)

\* a member of a roster of three has just died and is still on the roster
C29_Witness ==
    /\ pslast.op = "degrade_health"
    /\ Len(ps.party) = 3
    /\ ps.party[pslast.who].health = "Deceased"
    /\ living_party_members(ps) < living_party_members(pspre)

----------------------------------------------------------------------------
(* Properties of the scenes, checked under SpecGame *)

\* the scenes Game::update has code of their own for
Scenes == {"TitleScreen", "Introduction", "Options", "MainMenu"}

\* the changes of scene Game::update makes
SceneChanges ==
    {<<"TitleScreen", "MainMenu">>, <<"TitleScreen", "Introduction">>,
     <<"TitleScreen", "Options">>}
       \cup {<<s, "TitleScreen">> : s \in GameState \ {"TitleScreen"}}

\* C30: driven by Game::update from Game::new, the scene is always one of
\* TitleScreen, Introduction, Options and MainMenu; a call changes it only
\* from TitleScreen to MainMenu (on StartGame), to Introduction or to
\* Options, or from another scene back to TitleScreen; Setup, Travel,
\* Hunting, RiverCrossing, Trading, Event, Landmark and GameOver are never
\* reached.
C30_ScenesReachable ==
    /\ game.state \in Scenes
    /\ gpre.state \in Scenes
    /\ game.state # gpre.state => <<gpre.state, game.state>> \in SceneChanges
    /\ (gpre.state = "TitleScreen" /\ game.state = "MainMenu")
          <=> (glast.op = "update" /\ glast.action = "StartGame")
    /\ game.state \notin {"Setup", "Travel", "Hunting", "RiverCrossing",
                          "Trading", "Event", "Landmark", "GameOver"}

\* the title screen's Travel button was clicked and the main menu is shown
C30_Witness ==
    /\ glast.op = "update"
    /\ glast.input.keys = {}
    /\ glast.input.left
    /\ glast.action = "StartGame"
    /\ gpre.state = "TitleScreen"
    /\ game.state = "MainMenu"

----------------------------------------------------------------------------
(* Properties of the exit request, checked under SpecLatch *)

\* C31: exit_requested is false after Game::new; an update made while
\* assets_loaded is false changes neither the scene nor exit_requested;
\* exit_requested becomes true only in an update in TitleScreen whose title
\* action is Quit, and that update keeps the scene; once true it stays true
\* under update and transition_to.
C31_ExitIsALatch ==
    /\ glast.op = "new" => ~game.exit_requested
    /\ (glast.op = "update" /\ ~gpre.assets_loaded)
          => /\ game.state = gpre.state
             /\ game.exit_requested = gpre.exit_requested
    /\ (game.exit_requested /\ ~gpre.exit_requested)
          => /\ glast.op = "update"
             /\ gpre.assets_loaded
             /\ gpre.state = "TitleScreen"
             /\ glast.action = "Quit"
             /\ game.state = gpre.state
    /\ (glast.op = "update" /\ glast.action = "Quit") => game.exit_requested
    /\ gpre.exit_requested => game.exit_requested

\* the exit request has outlived a transition_to to another scene
C31_Witness ==
    /\ glast.op = "transition_to"
    /\ gpre.exit_requested
    /\ game.exit_requested
    /\ game.state # gpre.state

\* Quit has just been chosen on the title screen
C31_QuitChosen ==
    /\ glast.op = "update"
    /\ glast.action = "Quit"
    /\ ~gpre.exit_requested
    /\ game.exit_requested

----------------------------------------------------------------------------
(* Properties of a button, checked under SpecButton *)

\* the last update accepted a press
Accepted ==
    /\ blast.op = "update"
    /\ bpre.state # "Clicked"
    /\ is_hovering(bpre, blast.frame)
    /\ blast.frame.left

\* the click timer of the last update, after dt was added to it
Accumulated == f32_round(bpre.click_timer + blast.frame.dt)

\* a press is accepted exactly where the mouse is over a button that is not
\* Clicked; a Clicked button ignores hover and presses and adds dt to its
\* timer; the update on which the timer reaches 0.1, and no other, returns
\* the action and leaves the button Normal; every action returned follows a
\* press accepted and not yet answered.
PressesAndActions ==
    /\ (button.state = "Clicked" /\ bpre.state # "Clicked") <=> Accepted
    /\ Accepted => (button.click_timer = 0 /\ blast.action = "None")
    /\ (blast.op = "update" /\ bpre.state = "Clicked")
          => IF Accumulated >= ClickTime
             THEN /\ button.state = "Normal"
                  /\ button.click_timer = 0
                  /\ blast.action = bpre.action
             ELSE /\ button.state = "Clicked"
                  /\ button.click_timer = Accumulated
                  /\ blast.action = "None"
    /\ blast.action # "None"
          => (bpre.state = "Clicked" /\ Accumulated >= ClickTime)
    /\ blast.presses - blast.actions = IF button.state = "Clicked" THEN 1 ELSE 0

\* a frame with dt > 0 brings a Clicked button nearer to its action: it
\* returns the action or leaves the timer greater than it was
PositiveFramesAdvance ==
    (blast.op = "update" /\ bpre.state = "Clicked" /\ blast.frame.dt > 0)
       => (blast.action # "None" \/ button.click_timer > bpre.click_timer)

\* C32: Button::update returns its action exactly once per accepted press: a
\* press is accepted only where the mouse is over the button and the state
\* is not Clicked (state Clicked, timer 0, no action); while Clicked, hover
\* and presses are ignored and the timer accumulates dt; the first update on
\* which the timer reaches 0.1 returns the action, and only that one; no
\* action is returned without an accepted press before it; and with dt > 0
\* on every update the timer keeps growing until the action is returned.
C32_ActionOncePerPress ==
    /\ PressesAndActions
    /\ PositiveFramesAdvance

\* a Clicked button whose timer stands at 0.0625 s has been given a frame of
\* 2^-30 s and its timer has not moved
TimerStalls ==
    /\ blast.op = "update"
    /\ bpre.state = "Clicked"
    /\ blast.frame.dt = 1
    /\ button.state = "Clicked"
    /\ button.click_timer = bpre.click_timer
    /\ bpre.click_timer = 67108864

\* the action has been returned with the mouse away from the button
ActionReturnedAway ==
    /\ blast.action = "Introduction"
    /\ ~is_hovering(bpre, blast.frame)
    /\ button.state = "Normal"

----------------------------------------------------------------------------
(* Properties of the texture cache, checked under SpecAssets *)

\* the names a list holds before position i
NamesBefore(names, i) == {names[j] : j \in 1..(i - 1)}

\* the positions of a preloaded list whose name is neither cached nor loadable
Failing(names) ==
    {i \in 1..Len(names) :
        names[i] \notin DOMAIN apre.textures /\ names[i] \notin alast.files}

\* the least of a non-empty set of positions
First(positions) == CHOOSE i \in positions : \A j \in positions : i <= j

\* C33: load_texture of a cached name returns the cached texture and loads
\* nothing; a successful load inserts the entry for that name and leaves the
\* others as they were; a failed load returns an error and leaves the cache
\* as it was, so that a later call loads again; no entry is ever evicted or
\* replaced; get_texture returns a texture exactly for the cached names; and
\* preload_textures stops at the first name that fails, keeping the names
\* before it and loading none after it.
C33_CacheGrowsOnlyBySuccessfulLoads ==
    /\ \A k \in DOMAIN apre.textures :
          k \in DOMAIN textures /\ textures[k] = apre.textures[k]
    /\ alast.op = "load_texture"
          => LET name == alast.names[1]
             IN  IF name \in DOMAIN apre.textures
                 THEN /\ alast.ret = AOk(apre.textures[name])
                      /\ loads = apre.loads
                      /\ textures = apre.textures
                 ELSE IF alast.ret.ok
                 THEN /\ DOMAIN textures = DOMAIN apre.textures \cup {name}
                      /\ alast.ret = AOk(textures[name])
                      /\ loads = apre.loads + 1
                      /\ name \in alast.files
                 ELSE /\ alast.ret = AErr
                      /\ textures = apre.textures
                      /\ loads = apre.loads + 1
                      /\ name \notin alast.files
    /\ alast.op = "get_texture"
          => /\ alast.ret.ok <=> alast.names[1] \in DOMAIN textures
             /\ alast.ret.ok => alast.ret = AOk(textures[alast.names[1]])
             /\ textures = apre.textures
             /\ loads = apre.loads
    /\ alast.op = "preload_textures"
          => IF Failing(alast.names) = {}
             THEN /\ alast.ret.ok
                  /\ DOMAIN textures = DOMAIN apre.textures
                                          \cup NamesBefore(alast.names,
                                                           Len(alast.names) + 1)
             ELSE /\ alast.ret = AErr
                  /\ DOMAIN textures = DOMAIN apre.textures
                                          \cup NamesBefore(alast.names,
                                                           First(Failing(alast.names)))
    /\ \A k \in DOMAIN textures : textures[k] \in 1..loads

\* a preload has stopped at its second name: the first is cached, the third,
\* whose file is there, is not
C33_Witness ==
    /\ alast.op = "preload_textures"
    /\ alast.names = <<"TITLE.png", "BUTTONS.png", "MAP.png">>
    /\ alast.files = {"TITLE.png", "MAP.png"}
    /\ apre.textures = AssetManager_new
    /\ alast.ret = AErr
    /\ DOMAIN textures = {"TITLE.png"}

\* a name whose load failed has been loaded by a later call
LoadRetried ==
    /\ alast.op = "load_texture"
    /\ alast.ret = AOk(2)
    /\ apre.textures = AssetManager_new
    /\ apre.loads = 1

============================================================================
